---------------------------- MODULE Spec2Model ----------------------------
(***************************************************************************)
(* A model of speclite/filters.py: wavelength-array validation, filter     *)
(* response curves (FilterResponse), convolution plans (FilterConvolution) *)
(* and the AB-maggies layer.                                               *)
(*                                                                         *)
(* Numbers.  Wavelengths, tabulated responses and tabulated values are     *)
(* integers; every derived quantity (interpolated responses, integrands,   *)
(* integrals) is an exact rational <<n, d>> in lowest terms with d > 0.    *)
(* The IEEE results of a division by zero are kept: <<1,0>> is +inf,       *)
(* <<-1,0>> is -inf and <<0,0>> is nan.                                    *)
(* The physical constants h*c (_hc_constant) and 3631 Jy * c (_ab_constant)*)
(* are kept symbolic: a photon-weighted quantity is stored as its          *)
(* coefficient of 1/(h c), an AB reference flux as its coefficient of      *)
(* _ab_constant.                                                           *)
(*                                                                         *)
(* Arrays.  A numpy array or astropy Quantity of the caller is a record    *)
(* [shape, data, unit]: shape is the tuple of dimensions, data the values  *)
(* in row-major order, unit "none" for a plain array.  np.asarray() of     *)
(* such an object shares its memory, so an in-place operation of the       *)
(* library on the result changes the caller's object; the operators below  *)
(* return the caller's object as it is after the call ("after").           *)
(***************************************************************************)
EXTENDS Integers, Sequences, FiniteSets, TLC

VARIABLES
    cache,   \* _filter_cache: name -> FilterResponse (NoFilter when absent)
    filt,    \* the FilterResponse object the caller holds
    arr,     \* the caller's wavelength array object
    vals,    \* the caller's array of tabulated values
    plan,    \* the FilterConvolution object the caller holds
    steps,   \* library calls made on the caller's current array object
    last     \* the most recent call: its inputs and its outcome

vars == <<cache, filt, arr, vals, plan, steps, last>>

---------------------------------------------------------------------------
(* Bounds of the model.                                                    *)

\* Longest caller array handed to validate_wavelength_array.
MaxArrayLen == 3
\* Largest wavelength value of a caller array handed to the validator.
MaxArrayValue == 3
\* Library calls made on one caller array object.
MaxSteps == 2

\* Longest wavelength array handed to the FilterResponse constructor.
MaxFilterLen == 4
\* Filter wavelengths are drawn from -MaxNegWavelength..MaxFilterWavelength.
MaxFilterWavelength == 3
MaxNegWavelength == 1
\* Filter responses are drawn from -1..MaxResponse.
MaxResponse == 1
\* Longest group or band name tried.
MaxNameLen == 2

\* Plans: grids are drawn from 0..MaxWavelength, filters from the values
\* strictly inside that range.
MaxWavelength == 5
\* Longest grid of a plan that is evaluated.
MaxGridLen == 3
\* Wavelengths on which a function of the caller is tabulated.
MaxSamples == 2

\* astropy: 1 nm = 10 Angstrom (wavelength.unit.to(default_wavelength_unit)).
NmToAngstrom == 10
\* astropy: 1 uJ = 10 erg (values.unit.to(self.input_units)).
MicroJouleToErg == 10
\* 1 Angstrom in picometres.
AngstromToPicometre == 100

---------------------------------------------------------------------------
(* Exact rational arithmetic.                                              *)

Abs(x) == IF x < 0 THEN 0 - x ELSE x

Sign(x) == IF x < 0 THEN 0 - 1 ELSE IF x > 0 THEN 1 ELSE 0

RECURSIVE GCD(_, _)
GCD(a, b) == IF b = 0 THEN a ELSE GCD(b, a % b)

\* n/d in lowest terms; a zero denominator keeps only the sign (inf, nan).
Rat(n, d) ==
    IF d = 0 THEN <<Sign(n), 0>>
    ELSE LET g == GCD(Abs(n), Abs(d))
             s == Sign(d)
         IN  <<(s * n) \div g, (s * d) \div g>>

RInt(i) == <<i, 1>>
RZero == <<0, 1>>
RNaN == <<0, 0>>
IsFinite(a) == a[2] # 0
IsNaN(a) == a = RNaN

\* IEEE: any operation on nan is nan; the operations below are applied to
\* infinities only through RDiv and RMul.
RAdd(a, b) ==
    IF IsNaN(a) \/ IsNaN(b) THEN RNaN
    ELSE IF ~IsFinite(a) /\ ~IsFinite(b) THEN (IF a = b THEN a ELSE RNaN)
    ELSE IF ~IsFinite(a) THEN a
    ELSE IF ~IsFinite(b) THEN b
    ELSE Rat(a[1] * b[2] + b[1] * a[2], a[2] * b[2])

RNeg(a) == <<0 - a[1], a[2]>>
RSub(a, b) == RAdd(a, RNeg(b))

RMul(a, b) ==
    IF IsNaN(a) \/ IsNaN(b) THEN RNaN
    ELSE IF ~IsFinite(a) \/ ~IsFinite(b) THEN <<Sign(a[1]) * Sign(b[1]), 0>>
    ELSE Rat(a[1] * b[1], a[2] * b[2])

RDiv(a, b) ==
    IF IsNaN(a) \/ IsNaN(b) THEN RNaN
    ELSE IF ~IsFinite(b) THEN (IF IsFinite(a) THEN RZero ELSE RNaN)
    ELSE IF ~IsFinite(a) THEN <<Sign(a[1]) * (IF b[1] < 0 THEN 0 - 1 ELSE 1), 0>>
    ELSE Rat(a[1] * b[2], a[2] * b[1])

\* Comparisons with nan are false, as in IEEE.
RLt(a, b) ==
    /\ ~IsNaN(a) /\ ~IsNaN(b)
    /\ IF IsFinite(a) /\ IsFinite(b) THEN a[1] * b[2] < b[1] * a[2]
       ELSE IF IsFinite(a) THEN b[1] > 0
       ELSE IF IsFinite(b) THEN a[1] < 0
       ELSE a[1] < b[1]

RECURSIVE RSum(_)
RSum(s) == IF s = <<>> THEN RZero ELSE RAdd(Head(s), RSum(Tail(s)))

---------------------------------------------------------------------------
(* Sequences.                                                              *)

\* All sequences over S of length lo..hi.
SeqsOf(S, lo, hi) == UNION {[1..n -> S] : n \in lo..hi}

\* s[a..b] with Python's 0-based half-open slice s[start:stop].
Slice(s, start, stop) == [i \in 1..(stop - start) |-> s[start + i]]

Min(S) == CHOOSE x \in S : \A y \in S : x <= y
Max(S) == CHOOSE x \in S : \A y \in S : x >= y

\* The members of a set of integers in increasing order.
RECURSIVE SortedSeq(_)
SortedSeq(S) == IF S = {} THEN <<>> ELSE <<Min(S)>> \o SortedSeq(S \ {Min(S)})

\* The strictly increasing sequences over S of length lo..hi.
IncreasingSeqs(S, lo, hi) ==
    {SortedSeq(T) : T \in {U \in SUBSET S : Cardinality(U) \in lo..hi}}

\* The element of a one-element set: binds a value once.
The(S) == CHOOSE x \in S : TRUE

\* np.diff(s) > 0 everywhere.
StrictlyIncreasing(s) == \A i \in 1..(Len(s) - 1) : s[i + 1] - s[i] > 0

---------------------------------------------------------------------------
(* Units of wavelength.                                                    *)

NoUnit == "none"
ConvertibleUnits == {"Angstrom", "nm"}
WavelengthUnits == {NoUnit, "Angstrom", "nm", "s"}

\* unit.to(default_wavelength_unit): the factor that converts a value.
UnitTo(u) == IF u = "nm" THEN NmToAngstrom ELSE 1

---------------------------------------------------------------------------
(* Caller arrays.                                                          *)

NoArray == [shape |-> <<0>>, data |-> <<>>, unit |-> "absent"]

Array1(d, u) == [shape |-> <<Len(d)>>, data |-> d, unit |-> u]

\* len(a) of a 1-D array.
ALen(a) == a.shape[1]

---------------------------------------------------------------------------
(* validate_wavelength_array(wavelength, min_length).                      *)
(* err is the exception raised ("none" when the call returns), out the     *)
(* returned values, after the caller's object once the call is over.       *)

\* A variant that accepts repeated values (np.diff >= 0).
ValidateWavelengthArrayNonStrict(wavelength, min_length) ==
    LET hasUnit == wavelength.unit # NoUnit
        factor == UnitTo(wavelength.unit)
        scaled == IF hasUnit
                  THEN [i \in DOMAIN wavelength.data |-> wavelength.data[i] * factor]
                  ELSE wavelength.data
        after == [wavelength EXCEPT !.data = scaled]
        fail(e, m) == [err |-> e, msg |-> m, out |-> <<>>, after |-> after]
    IN  IF hasUnit /\ wavelength.unit \notin ConvertibleUnits
        THEN [err |-> "UnitConversionError", msg |-> "units", out |-> <<>>,
              after |-> wavelength]
        ELSE IF Len(wavelength.shape) # 1 THEN fail("ValueError", "1D")
        ELSE IF ALen(wavelength) < min_length THEN fail("ValueError", "minimum length")
        ELSE IF ~(\A i \in 1..(Len(scaled) - 1) : scaled[i + 1] - scaled[i] >= 0)
             THEN fail("ValueError", "increasing")
        ELSE [err |-> "none", msg |-> "", out |-> scaled, after |-> after]

ValidateWavelengthArray(wavelength, min_length) ==
    LET hasUnit == wavelength.unit # NoUnit
        \* wavelength_no_units = np.asarray(wavelength): the same memory.
        \* wavelength_no_units *= wavelength.unit.to(default_wavelength_unit):
        \* the right-hand side is evaluated first; without a unit it raises
        \* AttributeError (caught: nothing is multiplied), with a unit that
        \* does not convert it raises UnitConversionError (not caught), and
        \* otherwise the multiplication is done in place.
        factor == UnitTo(wavelength.unit)
        scaled == IF hasUnit
                  THEN [i \in DOMAIN wavelength.data |-> wavelength.data[i] * factor]
                  ELSE wavelength.data
        after == [wavelength EXCEPT !.data = scaled]
        fail(e, m) == [err |-> e, msg |-> m, out |-> <<>>, after |-> after]
    IN  IF hasUnit /\ wavelength.unit \notin ConvertibleUnits
        THEN [err |-> "UnitConversionError", msg |-> "units", out |-> <<>>,
              after |-> wavelength]
        ELSE IF Len(wavelength.shape) # 1 THEN fail("ValueError", "1D")
        ELSE IF ALen(wavelength) < min_length THEN fail("ValueError", "minimum length")
        ELSE IF ~StrictlyIncreasing(scaled) THEN fail("ValueError", "increasing")
        ELSE [err |-> "none", msg |-> "", out |-> scaled, after |-> after]

---------------------------------------------------------------------------
(* numpy and scipy primitives.                                             *)

\* np.searchsorted(a, v) for a sorted a (side='left'): the 0-based index
\* at which v would be inserted, the number of entries below v.
SearchSorted(a, v) == Cardinality({i \in DOMAIN a : RLt(a[i], v)})

Clip(i, lo, hi) == IF i < lo THEN lo ELSE IF i > hi THEN hi ELSE i

RInts(s) == [i \in DOMAIN s |-> RInt(s[i])]

\* scipy interp1d(x, y, kind='linear') evaluated at x_new, before the
\* bounds are looked at: the bracketing samples are found by searchsorted,
\* clipped to 1..len(x)-1, and y_new = slope * (x_new - x_lo) + y_lo.
LinearCall(x, y, x_new) ==
    LET hi == Clip(SearchSorted(x, x_new), 1, Len(x) - 1)
        lo == hi - 1
        slope == RDiv(RSub(y[hi + 1], y[lo + 1]), RSub(x[hi + 1], x[lo + 1]))
    IN  RAdd(RMul(slope, RSub(x_new, x[lo + 1])), y[lo + 1])

OutOfBounds(x, x_new) == RLt(x_new, x[1]) \/ RLt(x[Len(x)], x_new)

\* A variant without the bounds check: the end segments are extrapolated.
Interp1dFillExtrapolates(x, y, x_new) == LinearCall(x, y, x_new)

\* interp1d(..., bounds_error=False, fill_value=0.)(x_new); x and y are
\* sequences of rationals.
Interp1dFill(x, y, x_new) ==
    IF OutOfBounds(x, x_new) THEN RZero ELSE LinearCall(x, y, x_new)

\* scipy.integrate.trapz(y, x): sum(diff(x) * (y[1:] + y[:-1]) / 2.0).
Trapz(y, x) ==
    RSum([i \in 1..(Len(x) - 1) |->
            RDiv(RMul(RSub(x[i + 1], x[i]), RAdd(y[i + 1], y[i])), RInt(2))])

---------------------------------------------------------------------------
(* Names: a string is the sequence of its characters.                      *)

Letters == {"g", "r"}
Digits == {"2"}

\* A variant anchored with $ instead of \Z: a trailing newline is accepted.
NamePatternMatchDollar(s) ==
    LET body == IF s # <<>> /\ s[Len(s)] = "\n" THEN SubSeq(s, 1, Len(s) - 1) ELSE s
    IN  /\ Len(body) >= 1
        /\ body[1] \in Letters \cup {"_"}
        /\ \A i \in 2..Len(body) : body[i] \in Letters \cup Digits \cup {"_"}

\* _name_pattern = '^[a-zA-Z_][a-zA-Z0-9_]*\Z'
NamePatternMatch(s) ==
    /\ Len(s) >= 1
    /\ s[1] \in Letters \cup {"_"}
    /\ \A i \in 2..Len(s) : s[i] \in Letters \cup Digits \cup {"_"}

Str(s) == [str |-> TRUE, chars |-> s]
NotAStr == [str |-> FALSE, chars |-> <<>>]

\* A metadata argument: a dictionary (its items) or something dict() rejects.
Dict(items) == [dict |-> TRUE, items |-> items]
NotADict == [dict |-> FALSE, items |-> [k \in {} |-> NotAStr]]

RequiredKeys == <<"group_name", "band_name">>

---------------------------------------------------------------------------
(* FilterResponse.convolve_with_function for the callables the library     *)
(* itself passes: lambda wlen: wlen, lambda wlen: one, ab_reference_flux.  *)

\* tabulate_function_of_wavelength: the values of the function on the
\* filter's wavelengths (first calling convention, array with units).
\* ab_reference_flux is the coefficient of _ab_constant: 1 / wavelength**2.
\* flux_uJ and flux_erg are one spectrum, rising with wavelength, that the
\* caller's function returns in uJ/(cm2 s A) and in erg/(cm2 s A).
TabulateFunctionOfWavelength(function, wavelength) ==
    [i \in DOMAIN wavelength |->
        IF function = "wlen" THEN RInt(wavelength[i])
        ELSE IF function = "one" THEN RInt(1)
        ELSE IF function = "flux_uJ" THEN RInt(wavelength[i])
        ELSE IF function = "flux_erg" THEN RInt(MicroJouleToErg * wavelength[i])
        ELSE RDiv(RInt(1), RInt(wavelength[i] * wavelength[i]))]

\* The units of the values a callable returns: lambda wlen: wlen returns
\* its argument (a length), lambda wlen: one a dimensionless Quantity and
\* ab_reference_flux a flux density in default_flux_unit.
FunctionUnits(function) ==
    IF function = "wlen" THEN "Angstrom"
    ELSE IF function = "one" THEN "dimensionless"
    ELSE IF function = "flux_uJ" THEN "uJ/(cm2 s A)"
    ELSE "erg/(cm2 s A)"

\* A variant that applies the photon weights whatever the flag.
ConvolveWithFunctionWeighted(wavelength, response, function, photon_weighted) ==
    Trapz([i \in DOMAIN wavelength |->
              RMul(RMul(TabulateFunctionOfWavelength(function, wavelength)[i],
                        RInt(response[i])),
                   RInt(wavelength[i]))],
          RInts(wavelength))

\* The value of the convolution with method='trapz'; with photon weights it
\* is the coefficient of 1/(h c).
ConvolveWithFunction(wavelength, response, function, photon_weighted) ==
    LET values == TabulateFunctionOfWavelength(function, wavelength)
        weighted == [i \in DOMAIN values |-> RMul(values[i], RInt(response[i]))]
        integrand == IF photon_weighted
                     THEN [i \in DOMAIN values |->
                              RMul(weighted[i], RInt(wavelength[i]))]
                     ELSE weighted
    IN  Trapz(integrand, RInts(wavelength))

---------------------------------------------------------------------------
(* FilterResponse.__init__(wavelength, response, meta).                    *)

NoFilter ==
    [name |-> <<>>, wavelength |-> <<>>, response |-> <<>>,
     effective_wavelength |-> RNaN, ab_zeropoint |-> RNaN]

\* np.where(response > 0)[0], 0-based.
NonZero(response) == {i - 1 : i \in {j \in DOMAIN response : response[j] > 0}}

\* The metadata checks; "none" when they pass.
MetaError(meta) ==
    IF ~meta.dict THEN "ValueError"
    ELSE IF \E k \in DOMAIN RequiredKeys :
              LET required == RequiredKeys[k]
              IN  \/ required \notin DOMAIN meta.items
                  \/ ~meta.items[required].str
                  \/ ~NamePatternMatch(meta.items[required].chars)
         THEN "ValueError"
         ELSE "none"

\* A variant that keeps no zero sample at the edges.
TrimRangeTight(response) ==
    LET non_zero == NonZero(response)
    IN  [start |-> Min(non_zero), stop |-> Max(non_zero) + 1]

\* The stored (trimmed) samples: 0-based start and stop of the slice.
TrimRange(response) ==
    LET non_zero == NonZero(response)
    IN  [start |-> Min(non_zero) - 1, stop |-> Max(non_zero) + 2]

\* The constructor: err, the object built (NoFilter when it raises) and the
\* caller's wavelength object after the call.
FilterResponseInit(wavelength, response, meta) ==
    LET v == ValidateWavelengthArray(wavelength, 3)
        fail(e) == [err |-> e, obj |-> NoFilter, after |-> v.after]
    IN  IF v.err # "none" THEN fail(v.err)
        ELSE IF Len(v.out) # Len(response) THEN fail("ValueError")
        ELSE IF \E i \in DOMAIN response : response[i] < 0 THEN fail("ValueError")
        ELSE IF \A i \in DOMAIN response : response[i] = 0 THEN fail("ValueError")
        ELSE IF ~(response[1] = 0 /\ response[Len(response)] = 0)
             THEN fail("ValueError")
        ELSE LET t == TrimRange(response)
                 trim == t.stop - t.start < Len(v.out)
                 w == IF trim THEN Slice(v.out, t.start, t.stop) ELSE v.out
                 r == IF trim THEN Slice(response, t.start, t.stop) ELSE response
                 m == MetaError(meta)
             IN  IF m # "none" THEN fail(m)
                 ELSE LET numer == ConvolveWithFunction(w, r, "wlen", TRUE)
                          denom == ConvolveWithFunction(w, r, "one", TRUE)
                      IN  [err |-> "none",
                           obj |-> [name |-> meta.items["group_name"].chars \o <<"-">>
                                             \o meta.items["band_name"].chars,
                                    wavelength |-> w,
                                    response |-> r,
                                    effective_wavelength |-> RDiv(numer, denom),
                                    ab_zeropoint |->
                                        ConvolveWithFunction(
                                            w, r, "ab_reference_flux", TRUE)],
                           after |-> v.after]

\* FilterResponse.__call__(wavelength) for a scalar wavelength with an
\* optional unit: err and the returned response.
FilterResponseCall(f, x, unit) ==
    IF unit # NoUnit /\ unit \notin ConvertibleUnits
    THEN [err |-> "UnitConversionError", value |-> RNaN]
    ELSE [err |-> "none",
          value |-> Interp1dFill(RInts(f.wavelength), RInts(f.response),
                                 RMul(x, RInt(UnitTo(unit))))]

---------------------------------------------------------------------------
(* Units of tabulated values (spectral flux density per unit wavelength).  *)

\* default_flux_unit = erg / (cm2 s Angstrom); 1 uJ = 10 erg.
DefaultFluxUnit == "erg/(cm2 s A)"
FluxUnits == {DefaultFluxUnit, "uJ/(cm2 s A)"}


---------------------------------------------------------------------------
(* FilterConvolution.__init__(response, wavelength, photon_weighted,       *)
(* interpolate, units).  Attributes that the code sets to None are the     *)
(* empty sequence here (the code never sets them to an empty array).       *)

NoPlan ==
    [response |-> NoFilter, wavelength |-> <<>>, num_wavelength |-> 0,
     response_slice |-> [start |-> 0, stop |-> 0], response_grid |-> <<>>,
     interpolate_wavelength |-> <<>>, interpolate_response |-> <<>>,
     interpolate_sort_order |-> <<>>, quad_wavelength |-> <<>>,
     quad_weight |-> <<>>, input_units |-> NoUnit, output_units |-> <<>>]

\* np.searchsorted(a, v), side='left', on integers.
SearchSortedInt(a, v) == Cardinality({i \in DOMAIN a : a[i] < v})

\* np.argsort(s) for distinct values: the 0-based indices in sorted order.
ArgSort(s) ==
    [i \in DOMAIN s |->
        (CHOOSE j \in DOMAIN s : Cardinality({k \in DOMAIN s : s[k] < s[j]}) = i - 1) - 1]

\* s[order] for a sequence of 0-based indices.
Take(s, order) == [i \in DOMAIN order |-> s[order[i] + 1]]

\* insert_index = np.searchsorted(self._wavelength, response._wavelength[1:])
InsertIndex(grid, filter_wavelength) ==
    [j \in 1..(Len(filter_wavelength) - 1) |->
        SearchSortedInt(grid, filter_wavelength[j + 1])]

\* 1 + np.where(np.diff(insert_index) == 0)[0]: 0-based indices into the
\* filter's wavelengths, in increasing order.
Undersampled(insert_index) ==
    SortedSeq({k \in 1..(Len(insert_index) - 1) :
                  insert_index[k + 1] - insert_index[k] = 0})

\* A variant that leaves the end points where the grid has them.
ClampEndsNever(quad, filter_wavelength) == quad

\* Replace the quadrature end points by the filter's end points.
ClampEnds(quad, filter_wavelength) ==
    LET n == Len(quad)
        lo == IF quad[1] < filter_wavelength[1]
              THEN [quad EXCEPT ![1] = filter_wavelength[1]] ELSE quad
    IN  IF lo[n] > filter_wavelength[Len(filter_wavelength)]
        THEN [lo EXCEPT ![n] = filter_wavelength[Len(filter_wavelength)]] ELSE lo

\* A variant that keeps the whole grid.
ResponseSliceWhole(grid, filter_wavelength) == [start |-> 0, stop |-> Len(grid)]

\* The smallest slice of the grid that covers the filter (0-based, half-open).
ResponseSlice(grid, filter_wavelength) ==
    LET n == Len(grid)
        first == filter_wavelength[1]
        final == filter_wavelength[Len(filter_wavelength)]
    IN  [start |-> IF grid[1] < first
                   THEN Max({i - 1 : i \in {j \in DOMAIN grid : grid[j] <= first}})
                   ELSE 0,
         stop |-> IF grid[n] > final
                  THEN 1 + Min({i - 1 : i \in {j \in DOMAIN grid : grid[j] >= final}})
                  ELSE n]

\* under or over: the grid does not cover the filter.
\* A variant that also rejects a grid that ends exactly at the filter's ends.
DoesNotCoverOrTouches(grid, filter_wavelength) ==
    \/ grid[1] >= filter_wavelength[1]
    \/ grid[Len(grid)] <= filter_wavelength[Len(filter_wavelength)]

DoesNotCover(grid, filter_wavelength) ==
    \/ grid[1] > filter_wavelength[1]
    \/ grid[Len(grid)] < filter_wavelength[Len(filter_wavelength)]

\* A variant that refuses an undersampling grid whatever the flag.
RefusesAlways(needs, interpolate) == needs

\* The grid undersamples the filter and interpolation is not allowed.
Refuses(needs, interpolate) == needs /\ ~interpolate

\* The constructor: err and msg of the exception raised, the plan built and
\* the caller's wavelength object after the call.  The plan's wavelengths
\* are a view of the caller's array; without interpolation quad_wavelength
\* is that same view, so clamping its end points writes into the caller's
\* array.
FilterConvolutionInit(response, wavelength, photon_weighted, interpolate, units) ==
    LET v == ValidateWavelengthArray(wavelength, 2)
        fail(e, m, a) == [err |-> e, msg |-> m, obj |-> NoPlan, after |-> a]
    IN  IF v.err # "none" THEN fail(v.err, v.msg, v.after)
        ELSE
        LET fw == response.wavelength
            n == Len(v.out)
        IN  IF DoesNotCover(v.out, fw) THEN fail("ValueError", "cover", v.after)
            ELSE
            LET s == ResponseSlice(v.out, fw)
                grid == Slice(v.out, s.start, s.stop)
                response_grid ==
                    [i \in DOMAIN grid |->
                        Interp1dFill(RInts(fw), RInts(response.response), RInt(grid[i]))]
                undersampled == Undersampled(InsertIndex(grid, fw))
                needs == undersampled # <<>>
            IN  IF Refuses(needs, interpolate)
                THEN fail("ValueError", "undersample", v.after)
                ELSE
                LET extra == Take(fw, undersampled)
                    stacked == grid \o extra
                    order == ArgSort(stacked)
                    quad == ClampEnds(IF needs THEN Take(stacked, order) ELSE grid, fw)
                IN  [err |-> "none", msg |-> "",
                     obj |-> [response |-> response,
                              wavelength |-> IF needs THEN grid ELSE quad,
                              num_wavelength |-> n,
                              response_slice |-> s,
                              response_grid |-> response_grid,
                              interpolate_wavelength |-> extra,
                              interpolate_response |->
                                  Take(response.response, undersampled),
                              interpolate_sort_order |->
                                  IF needs THEN order ELSE <<>>,
                              quad_wavelength |-> quad,
                              quad_weight |->
                                  IF photon_weighted THEN RInts(quad) ELSE <<>>,
                              input_units |-> units,
                              output_units |->
                                  IF units = NoUnit THEN <<>>
                                  ELSE IF photon_weighted
                                       THEN <<units, "Angstrom2/(erg Angstrom)">>
                                       ELSE <<units, "Angstrom">>],
                     after |-> IF needs THEN v.after
                               ELSE [v.after EXCEPT !.data =
                                        [i \in DOMAIN v.out |->
                                            IF i = s.start + 1 THEN quad[1]
                                            ELSE IF i = s.stop THEN quad[Len(quad)]
                                            ELSE v.out[i]]]]

---------------------------------------------------------------------------
(* FilterConvolution.__call__(values, axis, method) for 1-D and 2-D values. *)
(* A 2-D array holds its values in row-major order; the samples along the  *)
(* wavelength axis of one spectrum are a lane of the array.                *)

\* A variant that knows the trapezoid rule only.
IntegrationMethodsTrapzOnly == {"trapz"}

\* The keys of _filter_integration_methods.
IntegrationMethods == {"trapz", "simps"}

\* One term of scipy's _basic_simps for samples given with their x: the
\* parabola through the points i, i+1, i+2 (1-based).
SimpsTerm(y, x, i) ==
    LET h0 == RSub(x[i + 1], x[i])
        h1 == RSub(x[i + 2], x[i + 1])
        hsum == RAdd(h0, h1)
        hprod == RMul(h0, h1)
        h0divh1 == RDiv(h0, h1)
    IN  RMul(RDiv(hsum, RInt(6)),
             RAdd(RAdd(RMul(y[i], RSub(RInt(2), RDiv(RInt(1), h0divh1))),
                       RDiv(RMul(RMul(y[i + 1], hsum), hsum), hprod)),
                  RMul(y[i + 2], RSub(RInt(2), h0divh1))))

\* _basic_simps(y, start, stop, x, dx, axis): the terms that start at the
\* 0-based indices start, start+2, ... below stop.
BasicSimps(y, x, start, stop) ==
    RSum([k \in 1..Cardinality({i \in start..(stop - 1) : (i - start) % 2 = 0}) |->
             SimpsTerm(y, x, start + 2 * (k - 1) + 1)])

\* scipy.integrate.simps(y, x) with even='avg': for an even number of
\* samples the mean of Simpson's rule on the first N-1 samples with a
\* trapezoid on the last interval and of Simpson's rule on the last N-1
\* samples with a trapezoid on the first interval.
Simps(y, x) ==
    LET n == Len(x)
        trapezoid(i) == RDiv(RMul(RSub(x[i + 1], x[i]), RAdd(y[i + 1], y[i])), RInt(2))
    IN  IF n % 2 = 0
        THEN RAdd(RDiv(RAdd(BasicSimps(y, x, 0, n - 3), BasicSimps(y, x, 1, n - 2)),
                       RInt(2)),
                  RDiv(RAdd(trapezoid(n - 1), trapezoid(1)), RInt(2)))
        ELSE BasicSimps(y, x, 0, n - 2)

\* scipy interp1d(..., bounds_error=True) at x_new inside the range.
Interp1dStrict(x, y, x_new) == LinearCall(x, y, x_new)

\* A float array whose values are fractions rather than whole numbers.
Fractions(d, u) == [shape |-> <<Len(d)>>, data |-> d, unit |-> u, fractions |-> TRUE]
HoldsFractions(a) == "fractions" \in DOMAIN a

\* The values of an array as rationals, and one value multiplied in place.
Numbers(a) == IF HoldsFractions(a) THEN a.data ELSE RInts(a.data)
Scaled(a, v, factor) == IF HoldsFractions(a) THEN RMul(v, RInt(factor)) ELSE v * factor

\* A values object that is the caller's grid object itself: the plan's
\* wavelengths are views of its memory.
SharesGrid(a) == "grid" \in DOMAIN a

\* values.unit.to(self.input_units) for the units of the model; 0 stands
\* for UnitConversionError.
ValuesUnitTo(unit, input_units) ==
    IF unit = input_units THEN 1
    ELSE IF unit = "uJ/(cm2 s A)" /\ input_units = DefaultFluxUnit THEN MicroJouleToErg
    ELSE IF unit = "Angstrom" /\ input_units = "pm" THEN AngstromToPicometre
    ELSE 0

\* numpy arrays of one or two dimensions: the shape and the values in
\* row-major order.  An index is a tuple of 0-based coordinates.
Size(shape) == IF Len(shape) = 1 THEN shape[1] ELSE shape[1] * shape[2]
Coords(shape, pos) ==
    IF Len(shape) = 1 THEN <<pos - 1>>
    ELSE <<(pos - 1) \div shape[2], (pos - 1) % shape[2]>>
Place(shape, c) == IF Len(shape) = 1 THEN c[1] + 1 ELSE c[1] * shape[2] + c[2] + 1
At(a, c) == a.data[Place(a.shape, c)]
\* The indices of an array of a shape, in memory order.
Indices(shape) == [pos \in 1..Size(shape) |-> Coords(shape, pos)]

\* The dimension (1-based) that an axis names; a negative axis counts from
\* the end.
Dim(shape, axis) == IF axis < 0 THEN Len(shape) + axis + 1 ELSE axis + 1

\* values.shape[axis].
AxisLength(shape, axis) == shape[Dim(shape, axis)]

\* The samples along dimension d through the index c.
Lane(a, d, c) == [i \in 1..a.shape[d] |-> At(a, [c EXCEPT ![d] = i - 1])]

\* a[values_slice] with values_slice[axis] = slice(start, stop).
SliceAxis(a, d, start, stop) ==
    LET shape == [a.shape EXCEPT ![d] = stop - start]
        c == Indices(shape)
    IN  [shape |-> shape,
         data |-> [pos \in DOMAIN c |-> At(a, [c[pos] EXCEPT ![d] = c[pos][d] + start])]]

\* v.reshape(response_shape): ones everywhere but len(v) at the axis.
ReshapeAlong(v, ndim, d) ==
    [shape |-> [e \in 1..ndim |-> IF e = d THEN Len(v) ELSE 1], data |-> v]

\* a * b where b is broadcast to the shape of a.
Multiply(a, b) ==
    LET c == Indices(a.shape)
    IN  [shape |-> a.shape,
         data |-> [pos \in DOMAIN c |->
                     RMul(At(a, c[pos]),
                          At(b, [e \in DOMAIN c[pos] |->
                                    IF b.shape[e] = 1 THEN 0 ELSE c[pos][e]]))]]

\* interp1d(x, y, axis=axis, kind='linear', bounds_error=True)(x_new).
Interp1dAxis(x, y, d, x_new) ==
    LET shape == [y.shape EXCEPT ![d] = Len(x_new)]
        c == Indices(shape)
    IN  [shape |-> shape,
         data |-> [pos \in DOMAIN c |->
                     Interp1dStrict(x, Lane(y, d, c[pos]), x_new[c[pos][d] + 1])]]

\* A variant that appends the values of b to those of a in memory order.
ConcatenateData(a, b, d) ==
    [shape |-> [a.shape EXCEPT ![d] = a.shape[d] + b.shape[d]],
     data |-> a.data \o b.data]

\* np.concatenate((a, b), axis=axis).
Concatenate(a, b, d) ==
    LET shape == [a.shape EXCEPT ![d] = a.shape[d] + b.shape[d]]
        c == Indices(shape)
    IN  [shape |-> shape,
         data |-> [pos \in DOMAIN c |->
                     IF c[pos][d] < a.shape[d] THEN At(a, c[pos])
                     ELSE At(b, [c[pos] EXCEPT ![d] = c[pos][d] - a.shape[d]])]]

\* a[values_slice] with values_slice[axis] = order (an index array).
TakeAxis(a, d, order) ==
    LET shape == [a.shape EXCEPT ![d] = Len(order)]
        c == Indices(shape)
    IN  [shape |-> shape,
         data |-> [pos \in DOMAIN c |->
                     At(a, [c[pos] EXCEPT ![d] = order[c[pos][d] + 1]])]]

\* integrator(y=y, x=x, axis=axis): the dimension is integrated out; the
\* result of a 1-D array is a scalar (shape ()).
IntegrateAxis(y, x, d, method) ==
    LET rule(lane) == IF method = "simps" THEN Simps(lane, x) ELSE Trapz(lane, x)
    IN  IF Len(y.shape) = 1
        THEN [shape |-> <<>>, data |-> <<rule(y.data)>>]
        ELSE [shape |-> <<y.shape[3 - d]>>,
              data |-> [k \in 1..y.shape[3 - d] |->
                          rule(Lane(y, d, IF d = 1 THEN <<0, k - 1>> ELSE <<k - 1, 0>>))]]

\* The integrand of __call__: the values times the response on the grid,
\* with the interpolated values times the response at the nodes appended
\* along the axis and put in order of wavelength when the plan has nodes.
Integrand(p, sliced, d) ==
    LET ndim == Len(sliced.shape)
    IN  The({IF p.interpolate_wavelength = <<>> THEN on_grid
             ELSE The({The({TakeAxis(stacked, d, p.interpolate_sort_order) :
                            stacked \in {Concatenate(
                                on_grid,
                                Multiply(interpolated_values,
                                         ReshapeAlong(RInts(p.interpolate_response),
                                                      ndim, d)),
                                d)}}) :
                       interpolated_values \in
                           {Interp1dAxis(RInts(p.wavelength), sliced, d,
                                         RInts(p.interpolate_wavelength))}}) :
             on_grid \in {Multiply(sliced, ReshapeAlong(p.response_grid, ndim, d))}})

\* The lines of __call__ from "Multiply values by the response" to the
\* integrator.
Integral(p, sliced, d, method) ==
    The({The({IntegrateAxis(weighted, RInts(p.quad_wavelength), d, method) :
              weighted \in {IF p.quad_weight = <<>> THEN integrand
                            ELSE Multiply(integrand,
                                          ReshapeAlong(p.quad_weight,
                                                       Len(sliced.shape), d))}}) :
         integrand \in {Integrand(p, sliced, d)}})

\* The plan as it is once the caller's values object holds the values of
\* after: _wavelength is a view of the slice of the caller's grid, and so
\* is quad_wavelength of a plan without nodes, so a write into a values
\* object that is the grid object is a write into them.
PlanViews(p, after) ==
    IF ~SharesGrid(after) THEN p
    ELSE The({[p EXCEPT !.wavelength = view,
                        !.quad_wavelength =
                            IF p.interpolate_wavelength = <<>> THEN view ELSE @] :
              view \in {Slice(after.data, p.response_slice.start,
                              p.response_slice.stop)}})

\* err, msg, the value of the integral (with photon weights: the
\* coefficient of 1/(h c)), whether it carries units, and the caller's
\* values object after the call.  The value is a number for 1-D values and
\* the sequence of the integrals for 2-D values.
FilterConvolutionCallAxis(p, values, axis, method) ==
    LET fail(m, a) ==
            [err |-> "ValueError", msg |-> m, value |-> RNaN,
             has_units |-> FALSE, after |-> a]
    IN  IF method \notin IntegrationMethods THEN fail("method", values)
        ELSE IF AxisLength(values.shape, axis) # p.num_wavelength
             THEN fail("length", values)
        ELSE IF values.unit # NoUnit /\ p.input_units = NoUnit
             THEN fail("no input units", values)
        ELSE IF values.unit # NoUnit /\ ValuesUnitTo(values.unit, p.input_units) = 0
             THEN fail("units", values)
        ELSE
        LET start == p.response_slice.start
            stop == p.response_slice.stop
            d == Dim(values.shape, axis)
            factor == IF values.unit = NoUnit THEN 1
                      ELSE ValuesUnitTo(values.unit, p.input_units)
            inside(pos) ==
                LET i == Coords(values.shape, pos)[d]
                IN  i >= start /\ i < stop
        IN  \* values_no_units *= ... on the slice of the caller's array.
            The({The({IF /\ q.interpolate_wavelength # <<>>
                         /\ \E k \in DOMAIN q.interpolate_wavelength :
                               OutOfBounds(RInts(q.wavelength),
                                           RInt(q.interpolate_wavelength[k]))
                      THEN fail("bounds", after)
                      ELSE The({[err |-> "none", msg |-> "",
                                 value |-> IF Len(values.shape) = 1
                                           THEN integral.data[1] ELSE integral.data,
                                 has_units |-> values.unit # NoUnit,
                                 after |-> after] :
                                integral \in
                                  {Integral(q,
                                            SliceAxis([shape |-> values.shape,
                                                       data |-> Numbers(after)],
                                                      d, start, stop),
                                            d, method)}}) :
                      q \in {PlanViews(p, after)}}) :
                 after \in {[values EXCEPT !.data =
                               [pos \in DOMAIN values.data |->
                                   IF values.unit # NoUnit /\ inside(pos)
                                   THEN Scaled(values, values.data[pos], factor)
                                   ELSE values.data[pos]]]}})

\* __call__ with the default axis=-1.
FilterConvolutionCall(p, values, method) ==
    FilterConvolutionCallAxis(p, values, 0 - 1, method)

\* The plan (the filter it refers to included) after __call__: the method
\* assigns no attribute of self, and what it writes in place is the
\* caller's values (values_no_units *= ...) and the freshly allocated
\* integrand (integrand *= ...).
PlanAfterCall(p, values, axis, method) ==
    PlanViews(p, FilterConvolutionCallAxis(p, values, axis, method).after)

\* FilterResponse.convolve_with_array(wavelength, values, photon_weighted,
\* interpolate, axis=-1, units, method): a plan is built and evaluated.
\* grid_after and values_after are the caller's objects after the call.
ConvolveWithArray(f, wavelength, values, photon_weighted, interpolate, units, method) ==
    The({IF c.err # "none"
         THEN [err |-> c.err, msg |-> c.msg, value |-> RNaN, has_units |-> FALSE,
               grid_after |-> c.after, values_after |-> values]
         ELSE The({[err |-> r.err, msg |-> r.msg, value |-> r.value,
                    has_units |-> r.has_units,
                    grid_after |-> c.after, values_after |-> r.after] :
                   r \in {FilterConvolutionCall(c.obj, values, method)}}) :
         c \in {FilterConvolutionInit(f, wavelength, photon_weighted, interpolate, units)}})

\* A variant that keeps convolve_with_array's default interpolate=False.
GetAbMaggiesNoInterpolation(f, spectrum, wavelength) ==
    The({[err |-> c.err, msg |-> c.msg,
          value |-> IF c.err = "none" THEN RDiv(c.value, f.ab_zeropoint) ELSE RNaN,
          grid_after |-> c.grid_after, values_after |-> c.values_after] :
         c \in {ConvolveWithArray(f, wavelength, spectrum, TRUE, FALSE,
                                  DefaultFluxUnit, "trapz")}})

\* FilterResponse.get_ab_maggies(spectrum, wavelength) for a tabulated
\* spectrum: the value is the coefficient of 1/_ab_constant.
GetAbMaggies(f, spectrum, wavelength) ==
    The({[err |-> c.err, msg |-> c.msg,
          value |-> IF c.err = "none" THEN RDiv(c.value, f.ab_zeropoint) ELSE RNaN,
          grid_after |-> c.grid_after, values_after |-> c.values_after] :
         c \in {ConvolveWithArray(f, wavelength, spectrum, TRUE, TRUE,
                                  DefaultFluxUnit, "trapz")}})

\* FilterResponse.get_ab_maggies(spectrum) for a callable spectrum
\* (wavelength=None): convolve_with_function with photon weights and
\* units=default_flux_unit, divided by ab_zeropoint.value.  Units the
\* callable returns must convert to default_flux_unit.
GetAbMaggiesOfFunction(f, function) ==
    IF FunctionUnits(function) \notin FluxUnits
    THEN [err |-> "ValueError", value |-> RNaN]
    ELSE [err |-> "none",
          value |-> RDiv(ConvolveWithFunction(f.wavelength, f.response, function, TRUE),
                         f.ab_zeropoint)]

---------------------------------------------------------------------------
(* Objects that do not exist yet.                                          *)

EmptyCache == [n \in {} |-> NoFilter]

Init ==
    /\ cache = EmptyCache
    /\ filt = NoFilter
    /\ arr = NoArray
    /\ vals = NoArray
    /\ plan = NoPlan
    /\ steps = 0
    /\ last = [op |-> "init"]

---------------------------------------------------------------------------
(* The validator on its own.                                               *)

ArrayValues == 1..MaxArrayValue

\* 1-D arrays of every length and order, scalars (0-D) and 2-D arrays.
ArrayInputs ==
    {Array1(d, u) : d \in SeqsOf(ArrayValues, 0, MaxArrayLen), u \in WavelengthUnits}
    \cup {[shape |-> <<>>, data |-> <<x>>, unit |-> u] :
              x \in ArrayValues, u \in {NoUnit, "nm"}}
    \cup {[shape |-> <<2, 1>>, data |-> <<x, x + 1>>, unit |-> u] :
              x \in ArrayValues, u \in {NoUnit, "nm"}}
    \cup {[shape |-> <<1, 2>>, data |-> <<x, x + 1>>, unit |-> NoUnit] :
              x \in ArrayValues}

MinLengths == 0..MaxArrayLen

\* The caller allocates a wavelength array.
CallerNewArray(a) ==
    /\ arr' = a
    /\ steps' = 0
    /\ last' = [op |-> "new_array"]
    /\ UNCHANGED <<cache, filt, vals, plan>>

\* validate_wavelength_array(arr, min_length) on the caller's object.
Validate(min_length) ==
    /\ arr # NoArray
    /\ steps < MaxSteps
    /\ LET r == ValidateWavelengthArray(arr, min_length)
       IN  /\ arr' = r.after
           /\ last' = [op |-> "validate", in |-> arr, min_length |-> min_length,
                       err |-> r.err, out |-> r.out]
    /\ steps' = steps + 1
    /\ UNCHANGED <<cache, filt, vals, plan>>

\* Each behaviour follows one array object of the caller.
NextValidate ==
    \/ /\ arr = NoArray
       /\ \E a \in ArrayInputs : CallerNewArray(a)
    \/ \E m \in MinLengths : Validate(m)

SpecValidate == Init /\ [][NextValidate]_vars

---------------------------------------------------------------------------
(* Filter construction and evaluation.                                     *)

\* A variant that keeps the entry a name already has.
CacheAfterInitFirstWins(c, r) ==
    IF r.err = "none" /\ r.obj.name \notin DOMAIN c
    THEN [n \in DOMAIN c \cup {r.obj.name} |->
             IF n = r.obj.name THEN r.obj ELSE c[n]]
    ELSE c

\* A variant that registers the name before the arrays are validated and
\* is left with an unfinished entry when they are rejected.
CacheAfterInitRegistersEarly(c, r) ==
    IF r.err = "none"
    THEN [n \in DOMAIN c \cup {r.obj.name} |->
             IF n = r.obj.name THEN r.obj ELSE c[n]]
    ELSE [n \in DOMAIN c |-> NoFilter]

\* _filter_cache after FilterResponse.__init__ with outcome r: the last
\* statement of the constructor, _filter_cache[self.name] = self, is
\* reached only when no check before it raised.
CacheAfterInit(c, r) ==
    IF r.err = "none"
    THEN [n \in DOMAIN c \cup {r.obj.name} |->
             IF n = r.obj.name THEN r.obj ELSE c[n]]
    ELSE c

\* FilterResponse(wavelength, response, meta): on success the caller holds
\* the new object and the cache maps its name to it.  before is the cache
\* as the call found it.
NewFilter(wavelength, response, meta) ==
    LET r == FilterResponseInit(wavelength, response, meta)
    IN  /\ filt' = IF r.err = "none" THEN r.obj ELSE filt
        /\ cache' = CacheAfterInit(cache, r)
        /\ last' = [op |-> "new_filter", wavelength |-> wavelength,
                    response |-> response, meta |-> meta,
                    err |-> r.err, obj |-> r.obj, before |-> cache]
        /\ UNCHANGED <<arr, vals, plan, steps>>

\* load_filter(name, load_from_cache): a cached name returns the cached
\* object; any other name is looked up as a file, and the names of the
\* model are no files of the package data.
LoadFilterByName(c, name, load_from_cache) ==
    IF load_from_cache /\ name \in DOMAIN c
    THEN [err |-> "none", obj |-> c[name]]
    ELSE [err |-> "ValueError", obj |-> NoFilter]

\* filt = load_filter(name, load_from_cache)
LoadFilter(name, load_from_cache) ==
    \E r \in {LoadFilterByName(cache, name, load_from_cache)} :
        /\ filt' = IF r.err = "none" THEN r.obj ELSE filt
        /\ last' = [op |-> "load_filter", name |-> name,
                    load_from_cache |-> load_from_cache,
                    err |-> r.err, obj |-> r.obj, before |-> cache]
        /\ UNCHANGED <<cache, arr, vals, plan, steps>>

\* filt(x) for a scalar wavelength x with an optional unit.
CallFilter(x, unit) ==
    /\ filt # NoFilter
    /\ LET r == FilterResponseCall(filt, x, unit)
       IN  last' = [op |-> "call", x |-> x, unit |-> unit,
                    err |-> r.err, value |-> r.value]
    /\ UNCHANGED <<cache, filt, arr, vals, plan, steps>>

\* filt.convolve_with_function(function, photon_weighted) with units=None
\* and method='trapz'.
ConvolveFunction(function, photon_weighted) ==
    /\ filt # NoFilter
    /\ last' = [op |-> "convolve_with_function", function |-> function,
                photon_weighted |-> photon_weighted,
                value |-> ConvolveWithFunction(filt.wavelength, filt.response,
                                               function, photon_weighted)]
    /\ UNCHANGED <<cache, filt, arr, vals, plan, steps>>

\* filt.get_ab_maggies(function) for a callable.
MaggiesOfFunction(function) ==
    /\ filt # NoFilter
    /\ \E r \in {GetAbMaggiesOfFunction(filt, function)} :
           last' = [op |-> "maggies_of_function", function |-> function,
                    err |-> r.err, value |-> r.value]
    /\ UNCHANGED <<cache, filt, arr, vals, plan, steps>>

\* The caller tabulates ab_reference_flux on a copy of the filter's own
\* wavelengths and calls filt.get_ab_maggies(flux, wavelength).
MaggiesOfTabulatedReference ==
    /\ filt # NoFilter
    /\ \E r \in {GetAbMaggies(
                     filt,
                     Fractions(TabulateFunctionOfWavelength("ab_reference_flux",
                                                            filt.wavelength),
                               DefaultFluxUnit),
                     Array1(filt.wavelength, NoUnit))} :
           last' = [op |-> "maggies_of_reference_array",
                    err |-> r.err, value |-> r.value]
    /\ UNCHANGED <<cache, filt, arr, vals, plan, steps>>

Functions == {"wlen", "one", "ab_reference_flux"}

\* Callables that return one spectrum in two units.
SpectrumFunctions == {"flux_uJ", "flux_erg"}

FilterWavelengthValues == (0 - MaxNegWavelength)..MaxFilterWavelength
ResponseValues == (0 - 1)..MaxResponse

IncreasingWavelengths ==
    IncreasingSeqs(FilterWavelengthValues, 0, MaxFilterLen)

Reverse(s) == [i \in DOMAIN s |-> s[Len(s) + 1 - i]]

GoodMeta == Dict([group_name |-> Str(<<"g">>), band_name |-> Str(<<"r">>)])

NameInputs ==
    {Str(s) : s \in SeqsOf({"g", "2", "_", "-", "\n"}, 0, MaxNameLen)} \cup {NotAStr}

MetaInputs ==
    {Dict([group_name |-> a, band_name |-> b]) : a \in NameInputs, b \in NameInputs}
    \cup {Dict([group_name |-> a]) : a \in NameInputs}
    \cup {Dict([band_name |-> b]) : b \in NameInputs}
    \cup {NotADict}

\* Constructor arguments: every increasing wavelength array with every
\* response of its length, arrays of unequal length, arrays in decreasing
\* order, and a well-formed pair with every metadata value.
FilterInputs ==
    UNION {{<<w, r, GoodMeta>> : r \in [1..Len(w) -> ResponseValues]} :
              w \in IncreasingWavelengths}
    \cup {<<w, r, GoodMeta>> : w \in IncreasingWavelengths,
                               r \in {<<0, 1, 0>>, <<0, 1, 1, 0>>}}
    \cup {<<Reverse(w), <<0, 1, 0>>, GoodMeta>> :
              w \in {v \in IncreasingWavelengths : Len(v) = 3}}
    \cup {<<<<1, 2, 3>>, <<0, 1, 0>>, m>> : m \in MetaInputs}

\* Wavelengths at which a filter is evaluated: on and between the samples
\* and on either side of them, without a unit, in nm and in a unit that is
\* no length.
CallInputs ==
    {<<Rat(k, 2), u>> :
        k \in (0 - 2 * (MaxNegWavelength + 1))..(2 * (MaxFilterWavelength + 1)),
        u \in {NoUnit, "s"}}
    \cup {<<Rat(k, NmToAngstrom), "nm">> :
        k \in (0 - (MaxNegWavelength + 1))..(MaxFilterWavelength + 1)}

\* Each behaviour makes one construction attempt and then uses the filter.
NextFilter ==
    \/ /\ last.op = "init"
       /\ \E in \in FilterInputs : NewFilter(Array1(in[1], NoUnit), in[2], in[3])
    \/ \E c \in CallInputs : CallFilter(c[1], c[2])
    \/ \E function \in Functions, pw \in BOOLEAN : ConvolveFunction(function, pw)
    \/ \E function \in Functions \cup SpectrumFunctions : MaggiesOfFunction(function)
    \/ MaggiesOfTabulatedReference

SpecFilter == Init /\ [][NextFilter]_vars

---------------------------------------------------------------------------
(* The cache: any number of constructions, good and rejected, under two    *)
(* names, and look-ups by name.                                            *)

\* Three curves the constructor accepts, arrays of unequal length and
\* wavelengths in decreasing order.
CacheCurveInputs ==
    {<<<<1, 2, 3>>, <<0, 1, 0>>>>, <<<<1, 2, 3>>, <<0, 2, 0>>>>,
     <<<<1, 2, 3, 4>>, <<0, 1, 1, 0>>>>,
     <<<<1, 2, 3>>, <<0, 1>>>>, <<<<3, 2, 1>>, <<0, 1, 0>>>>}

CacheBands == {"r", "g"}

\* Metadata naming g-r and g-g, metadata without a band and no dictionary.
CacheMetaInputs ==
    {Dict([group_name |-> Str(<<"g">>), band_name |-> Str(<<b>>)]) : b \in CacheBands}
    \cup {Dict([group_name |-> Str(<<"g">>)]), NotADict}

\* The names looked up: the two that are registered and one that never is.
CacheNames == {<<"g", "-", b>> : b \in CacheBands} \cup {<<"r", "-", "r">>}

NextCache ==
    \/ \E c \in CacheCurveInputs, m \in CacheMetaInputs :
          NewFilter(Array1(c[1], NoUnit), c[2], m)
    \/ \E name \in CacheNames, load_from_cache \in BOOLEAN :
          LoadFilter(name, load_from_cache)

SpecCache == Init /\ [][NextCache]_vars

---------------------------------------------------------------------------
(* tabulate_function_of_wavelength(function, wavelength) for a function of *)
(* the caller.  The function is given by what each of its calls does: it   *)
(* raises ("TypeError" stands for any exception that is no RuntimeError)   *)
(* or it returns a value with a unit ("U", "V") or without one (NoUnit).   *)
(* array_units and array are the calls with the whole array, each_units    *)
(* and each the calls sample by sample.                                    *)

Raises(outcome) == outcome \in {"TypeError", "RuntimeError"}

\* The loop of an elementwise convention from sample i on; function_units
\* is the local variable of that name, which the loop finds as the code
\* before it left it.  status is "returned", "failed" (an exception that
\* makes the code keep trying) or "RuntimeError" (re-raised).
RECURSIVE ElementwiseLoop(_, _, _)
ElementwiseLoop(outcomes, i, function_units) ==
    IF i > Len(outcomes)
    THEN [status |-> "returned", units |-> function_units, msg |-> ""]
    ELSE IF outcomes[i] = "RuntimeError"
    THEN [status |-> "RuntimeError", units |-> function_units, msg |-> "function"]
    ELSE IF Raises(outcomes[i])
    THEN [status |-> "failed", units |-> function_units, msg |-> ""]
    ELSE IF i = 1
    THEN \* function_units = value.unit; AttributeError: pass
         ElementwiseLoop(outcomes, i + 1,
                         IF outcomes[i] # NoUnit THEN outcomes[i] ELSE function_units)
    ELSE IF function_units = NoUnit
    THEN IF outcomes[i] # NoUnit
         THEN [status |-> "RuntimeError", units |-> function_units,
               msg |-> "inconsistent"]
         ELSE ElementwiseLoop(outcomes, i + 1, function_units)
    ELSE IF outcomes[i] = NoUnit \/ outcomes[i] # function_units
    THEN [status |-> "RuntimeError", units |-> function_units, msg |-> "inconsistent"]
    ELSE ElementwiseLoop(outcomes, i + 1, function_units)

\* The last convention: the loop starts with the function_units that the
\* convention before it left behind.
ElementwiseLoopAfter(outcomes, function_units) ==
    ElementwiseLoop(outcomes, 1, function_units)

\* except RuntimeError as e: raise e / except Exception: keep trying.
KeepTrying(attempt) == attempt.status = "failed"

\* err, msg, the convention (1..4) that returned or raised, and the units
\* returned.
TabulateCalls(function) ==
    IF ~Raises(function.array_units)
    THEN [err |-> "none", msg |-> "", convention |-> 1, units |-> function.array_units]
    ELSE IF ~Raises(function.array)
    THEN [err |-> "none", msg |-> "", convention |-> 2, units |-> function.array]
    ELSE
    LET third == ElementwiseLoop(function.each_units, 1, NoUnit)
    IN  IF third.status = "returned"
        THEN [err |-> "none", msg |-> "", convention |-> 3, units |-> third.units]
        ELSE IF ~KeepTrying(third)
        THEN [err |-> "RuntimeError", msg |-> third.msg, convention |-> 3,
              units |-> NoUnit]
        ELSE
        LET fourth == ElementwiseLoopAfter(function.each, third.units)
        IN  IF fourth.status = "returned"
            THEN [err |-> "none", msg |-> "", convention |-> 4, units |-> fourth.units]
            ELSE IF fourth.status = "RuntimeError"
            THEN [err |-> "RuntimeError", msg |-> fourth.msg, convention |-> 4,
                  units |-> NoUnit]
            ELSE [err |-> "ValueError", msg |-> "invalid", convention |-> 4,
                  units |-> NoUnit]

\* values, units = tabulate_function_of_wavelength(function, wavelength)
Tabulate(function) ==
    /\ \E r \in {TabulateCalls(function)} :
          last' = [op |-> "tabulate", function |-> function, err |-> r.err,
                   msg |-> r.msg, convention |-> r.convention, units |-> r.units]
    /\ UNCHANGED <<cache, filt, arr, vals, plan, steps>>

\* What a call with the whole array, and a call with one sample, can do.
ArrayOutcomes == {"TypeError", "RuntimeError", NoUnit, "U"}
SampleOutcomes == {"TypeError", "RuntimeError", NoUnit, "U", "V"}

\* The functions: every combination of outcomes on MaxSamples wavelengths.
TabulateInputs ==
    [array_units : ArrayOutcomes, array : ArrayOutcomes,
     each_units : [1..MaxSamples -> SampleOutcomes],
     each : [1..MaxSamples -> SampleOutcomes]]

NextTabulate ==
    /\ last.op = "init"
    /\ \E function \in TabulateInputs : Tabulate(function)

SpecTabulate == Init /\ [][NextTabulate]_vars

---------------------------------------------------------------------------
(* Plans: one filter, one grid object of the caller, and the calls that    *)
(* take a grid.                                                            *)

\* FilterConvolution(filt, arr, photon_weighted, interpolate, units).
NewPlan(photon_weighted, interpolate, units) ==
    /\ filt # NoFilter
    /\ arr # NoArray
    /\ \E r \in {FilterConvolutionInit(filt, arr, photon_weighted, interpolate, units)} :
           /\ plan' = IF r.err = "none" THEN r.obj ELSE plan
           /\ arr' = r.after
           /\ last' = [op |-> "new_plan", grid |-> arr,
                       photon_weighted |-> photon_weighted,
                       interpolate |-> interpolate, units |-> units,
                       err |-> r.err, msg |-> r.msg, obj |-> r.obj]
    /\ UNCHANGED <<cache, filt, vals, steps>>

\* filt.get_ab_maggies(values, arr) for a tabulated spectrum.
GetAbMaggiesOfArray(values) ==
    /\ filt # NoFilter
    /\ arr # NoArray
    /\ \E r \in {GetAbMaggies(filt, values, arr)} :
           /\ arr' = r.grid_after
           /\ vals' = r.values_after
           /\ last' = [op |-> "get_ab_maggies", grid |-> arr, values |-> values,
                       err |-> r.err, msg |-> r.msg, value |-> r.value]
    /\ UNCHANGED <<cache, filt, plan, steps>>

GridValues == 0..MaxWavelength
PlanFilterValues == 1..(MaxWavelength - 1)

\* A response curve already trimmed, rising to its last interior sample.
PlanResponse(n) == [i \in 1..n |-> IF i = 1 \/ i = n THEN 0 ELSE i - 1]

\* The filters on 1..MaxWavelength-1, and one that ends at MaxWavelength
\* with two interior wavelengths next to each other.
PlanFilterInputs ==
    {<<w, PlanResponse(Len(w))>> :
        w \in IncreasingSeqs(PlanFilterValues, 3, MaxWavelength - 1)
              \cup {<<1, 2, 3, MaxWavelength>>}}

\* Every increasing grid of at least 2 points, and grids the validator
\* rejects: a single point, a repeated value, a 2-D array.
GridInputs ==
    {Array1(g, NoUnit) : g \in IncreasingSeqs(GridValues, 2, MaxWavelength + 1)}
    \cup {Array1(<<0>>, NoUnit), Array1(<<0, 0, MaxWavelength>>, NoUnit),
          [shape |-> <<1, 2>>, data |-> <<0, MaxWavelength>>, unit |-> NoUnit]}

\* Spectra tabulated on a grid: constant without units, rising with units.
ValueInputs(grid) ==
    {Array1([i \in DOMAIN grid.data |-> 1], NoUnit),
     Array1([i \in DOMAIN grid.data |-> i], DefaultFluxUnit)}

\* The units declared for the values of a plan.
PlanUnits == {DefaultFluxUnit}

\* Each behaviour builds one filter, takes one grid object and then makes
\* calls on that grid.
Next ==
    \/ /\ last.op = "init"
       /\ \E in \in PlanFilterInputs : NewFilter(Array1(in[1], NoUnit), in[2], GoodMeta)
    \/ /\ filt # NoFilter
       /\ arr = NoArray
       /\ \E g \in GridInputs : CallerNewArray(g)
    \/ \E pw \in BOOLEAN, interpolate \in BOOLEAN, units \in PlanUnits :
           NewPlan(pw, interpolate, units)
    \/ \E values \in ValueInputs(arr) : GetAbMaggiesOfArray(values)

Spec == Init /\ [][Next]_vars

---------------------------------------------------------------------------
(* Evaluation: one filter, one grid, one plan and one values object of the *)
(* caller, on which the plan is evaluated repeatedly.                      *)

\* The caller allocates an array of tabulated values.
CallerNewValues(v) ==
    /\ vals' = v
    /\ steps' = 0
    /\ last' = [op |-> "new_values"]
    /\ UNCHANGED <<cache, filt, arr, plan>>

\* The caller takes the grid object itself, a quantity, as the values:
\* plan(grid).
CallerPassesGrid ==
    /\ plan # NoPlan
    /\ vals = NoArray
    /\ arr.unit # NoUnit
    /\ vals' = [shape |-> arr.shape, data |-> arr.data, unit |-> arr.unit,
                grid |-> TRUE]
    /\ steps' = 0
    /\ last' = [op |-> "new_values"]
    /\ UNCHANGED <<cache, filt, arr, plan>>

\* plan(vals, axis, method).  A grid object is passed while its values are
\* within the bound of the wavelengths.  prev is the outcome of the call before this
\* one when that was an evaluation with the same axis and method (the plan
\* and the values object are the same by construction).
Evaluate(axis, method) ==
    /\ plan # NoPlan
    /\ vals # NoArray
    /\ steps < MaxSteps
    /\ SharesGrid(vals) => \A i \in DOMAIN vals.data : vals.data[i] <= MaxWavelength
    /\ \E r \in {FilterConvolutionCallAxis(plan, vals, axis, method)} :
           /\ vals' = r.after
           /\ last' = [op |-> "evaluate", values |-> vals, axis |-> axis,
                       method |-> method, err |-> r.err, msg |-> r.msg,
                       value |-> r.value, has_units |-> r.has_units,
                       prev |-> IF last.op = "evaluate" /\ last.axis = axis
                                   /\ last.method = method
                                THEN <<last.err, last.value>> ELSE <<>>]
           /\ arr' = IF SharesGrid(vals) THEN [arr EXCEPT !.data = r.after.data]
                      ELSE arr
    /\ plan' = PlanAfterCall(plan, vals, axis, method)
    /\ filt' = PlanAfterCall(plan, vals, axis, method).response
    /\ steps' = steps + 1
    /\ UNCHANGED cache

\* Filters that span 1..MaxWavelength-1.
EvalFilterInputs ==
    {in \in PlanFilterInputs :
        in[1][1] = 1 /\ in[1][Len(in[1])] = MaxWavelength - 1}

\* Valid grids of at most MaxGridLen points that cover those filters, as
\* plain arrays and, those that start with the filters, as quantities in
\* the canonical unit.
EvalGridInputs ==
    {a \in {Array1(g, u) :
               g \in {h \in IncreasingSeqs(GridValues, 2, MaxGridLen) :
                         h[1] <= 1 /\ h[Len(h)] >= MaxWavelength - 1},
               u \in {NoUnit, "Angstrom"}} :
        a.unit = NoUnit \/ a.data[1] = 1}

\* photon_weighted, interpolate and units of the plans evaluated.
EvalPlanInputs ==
    {<<TRUE, TRUE, DefaultFluxUnit>>, <<FALSE, FALSE, DefaultFluxUnit>>,
     <<FALSE, TRUE, NoUnit>>, <<FALSE, TRUE, "pm">>}

\* Values for a plan of m wavelengths: a constant spectrum, a rising
\* spectrum in uJ, two spectra (rising, squares) as a 2 x m array without
\* and with a unit, and a spectrum one sample too long.
EvalValueInputs(m) ==
    {Array1([i \in 1..m |-> 1], NoUnit),
     Array1([i \in 1..m |-> i], "uJ/(cm2 s A)"),
     Array1([i \in 1..(m + 1) |-> 1], NoUnit)}
    \cup {[shape |-> <<2, m>>,
           data |-> [j \in 1..(2 * m) |-> IF j <= m THEN j ELSE (j - m) * (j - m)],
           unit |-> u] : u \in {NoUnit, "uJ/(cm2 s A)"}}

\* Values that fit the restricted slice of plan p but not its grid, and
\* values in a unit that is no flux density.
EvalRejectedValueInputs(p) ==
    {Array1([i \in 1..(p.response_slice.stop - p.response_slice.start) |-> 1], NoUnit),
     Array1([i \in 1..p.num_wavelength |-> 1], "Angstrom")}

\* axis and method of the evaluations.
EvalCallInputs ==
    {<<0 - 1, "trapz">>, <<0, "trapz">>, <<0 - 1, "simps">>, <<0 - 1, "bogus">>}

NextEval ==
    \/ /\ last.op = "init"
       /\ \E in \in EvalFilterInputs : NewFilter(Array1(in[1], NoUnit), in[2], GoodMeta)
    \/ /\ filt # NoFilter
       /\ arr = NoArray
       /\ \E g \in EvalGridInputs : CallerNewArray(g)
    \/ /\ plan = NoPlan
       /\ \E in \in EvalPlanInputs : NewPlan(in[1], in[2], in[3])
    \/ /\ plan # NoPlan
       /\ vals = NoArray
       /\ \E v \in EvalValueInputs(plan.num_wavelength) \cup EvalRejectedValueInputs(plan) :
             CallerNewValues(v)
    \/ CallerPassesGrid
    \/ \E c \in EvalCallInputs : Evaluate(c[1], c[2])

SpecEval == Init /\ [][NextEval]_vars

---------------------------------------------------------------------------
(* C7: validate_wavelength_array fails for every input that is not 1-D,    *)
(* that is shorter than min_length, or that has a pair of consecutive      *)
(* values that are equal or decreasing; every other input without a unit   *)
(* is returned with its values unchanged.                                  *)

C7_Rejected(a, min_length) ==
    \/ Len(a.shape) # 1
    \/ Len(a.data) < min_length
    \/ \E i \in 1..(Len(a.data) - 1) : a.data[i + 1] <= a.data[i]

C7_ValidateRejectsOrReturnsUnchanged ==
    last.op = "validate" =>
        /\ C7_Rejected(last.in, last.min_length) => last.err # "none"
        /\ (~C7_Rejected(last.in, last.min_length) /\ last.in.unit = NoUnit) =>
               (last.err = "none" /\ last.out = last.in.data)

\* A 1-D array long enough whose only defect is a repeated value was rejected.
C7_Witness ==
    /\ last.op = "validate"
    /\ Len(last.in.shape) = 1
    /\ Len(last.in.data) >= 2
    /\ Len(last.in.data) >= last.min_length
    /\ \A i \in 1..(Len(last.in.data) - 1) : last.in.data[i + 1] >= last.in.data[i]
    /\ \E i \in 1..(Len(last.in.data) - 1) : last.in.data[i + 1] = last.in.data[i]
    /\ last.in.unit = NoUnit
    /\ last.err = "ValueError"

(* C8: validate_wavelength_array has no side effects: after a call,        *)
(* successful or not, the caller's array (values and unit) is as before,   *)
(* for inputs without a unit and for inputs with a unit convertible to the *)
(* canonical wavelength unit.                                              *)
C8_ValidateLeavesCallerArray ==
    (last.op = "validate" /\ last.in.unit \in ConvertibleUnits \cup {NoUnit}) =>
        arr = last.in

---------------------------------------------------------------------------
(* C5: after every successful FilterResponse construction the stored       *)
(* wavelength and response arrays have equal length of at least 3, the     *)
(* first and last stored response are 0, the second and the second-to-last *)
(* are strictly positive, and the stored samples are a contiguous          *)
(* sub-range of the input samples in their original order.                 *)
C5_StoredCurveIsTrimmed ==
    (last.op = "new_filter" /\ last.err = "none") =>
        LET w == filt.wavelength
            r == filt.response
            n == Len(r)
        IN  /\ filt = last.obj
            /\ Len(w) = n
            /\ n >= 3
            /\ r[1] = 0 /\ r[n] = 0
            /\ r[2] > 0 /\ r[n - 1] > 0
            /\ \E k \in 0..(Len(last.response) - n) :
                   \A i \in 1..n : /\ w[i] = last.wavelength.data[k + i]
                                   /\ r[i] = last.response[k + i]

\* A construction that dropped a surplus zero sample.
C5_Witness ==
    /\ last.op = "new_filter"
    /\ last.err = "none"
    /\ Len(filt.response) < Len(last.response)

(* C6: FilterResponse construction fails with a validation error, and      *)
(* yields no object, when the response's first or last sample is nonzero,  *)
(* when any response value is negative, when all response values are zero, *)
(* when the response and wavelength arrays differ in length, when fewer    *)
(* than 3 wavelengths are given, or when the metadata lacks group_name or  *)
(* band_name or either is not an identifier-like string.                   *)
C6_IdentifierLike(v) ==
    /\ v.str
    /\ v.chars # <<>>
    /\ \A i \in DOMAIN v.chars :
           \/ v.chars[i] \in {"g", "r", "_"}
           \/ i > 1 /\ v.chars[i] = "2"

C6_BadMeta(meta) ==
    \E k \in {"group_name", "band_name"} :
        k \notin DOMAIN meta.items \/ ~C6_IdentifierLike(meta.items[k])

C6_BadArrays(w, r) ==
    \/ Len(w) < 3
    \/ Len(w) # Len(r)
    \/ \E i \in DOMAIN r : r[i] < 0
    \/ \A i \in DOMAIN r : r[i] = 0
    \/ r # <<>> /\ (r[1] # 0 \/ r[Len(r)] # 0)

C6_ConstructionRejects ==
    (/\ last.op = "new_filter"
     /\ C6_BadArrays(last.wavelength.data, last.response) \/ C6_BadMeta(last.meta)) =>
        (last.err = "ValueError" /\ last.obj = NoFilter /\ filt = NoFilter)

\* Well-formed arrays with a name that is a string but no identifier.
C6_Witness ==
    /\ last.op = "new_filter"
    /\ ~C6_BadArrays(last.wavelength.data, last.response)
    /\ StrictlyIncreasing(last.wavelength.data)
    /\ last.meta.dict
    /\ DOMAIN last.meta.items = {"group_name", "band_name"}
    /\ last.meta.items["group_name"].str
    /\ last.meta.items["band_name"].str
    /\ C6_BadMeta(last.meta)
    /\ last.err = "ValueError"

(* C9: evaluating a filter at any wavelength below its first stored        *)
(* wavelength or above its last returns exactly 0, and evaluating it at a  *)
(* stored wavelength returns the stored response of that sample.           *)
C9_Wavelength == RMul(last.x, RInt(UnitTo(last.unit)))

C9_CallOutsideIsZeroAtSampleIsStored ==
    (last.op = "call" /\ last.err = "none") =>
        LET x == C9_Wavelength
            w == filt.wavelength
        IN  /\ (RLt(x, RInt(w[1])) \/ RLt(RInt(w[Len(w)]), x)) => last.value = RZero
            /\ \A i \in DOMAIN w :
                   x = RInt(w[i]) => last.value = RInt(filt.response[i])

\* An evaluation beyond the last sample of a filter whose response rises
\* towards its last interior sample.
C9_Witness ==
    /\ last.op = "call"
    /\ last.err = "none"
    /\ RLt(RInt(filt.wavelength[Len(filt.wavelength)]), C9_Wavelength)
    /\ last.value = RZero

(* C10: for all inputs accepted by FilterResponse construction the         *)
(* effective wavelength is defined and lies strictly within                *)
(* [wavelengths[0], wavelengths[-1]].                                      *)
C10_EffectiveWavelengthWithin ==
    (last.op = "new_filter" /\ last.err = "none") =>
        /\ IsFinite(filt.effective_wavelength)
        /\ RLt(RInt(filt.wavelength[1]), filt.effective_wavelength)
        /\ RLt(filt.effective_wavelength,
               RInt(filt.wavelength[Len(filt.wavelength)]))

(* C11: for every valid filter the unweighted convolve_with_function of    *)
(* the constant function 1 with the trapezoid rule is exactly the area     *)
(* under the filter's piecewise-linear response curve; for the filter with *)
(* response 0 at 5000, 1 at 6000 and 0 at 7000 it is exactly 1000.         *)
C11_Area(w, r) ==
    RSum([i \in 1..(Len(w) - 1) |->
            LET dx == w[i + 1] - w[i]
                low == IF r[i] < r[i + 1] THEN r[i] ELSE r[i + 1]
                rise == Abs(r[i + 1] - r[i])
            IN  RAdd(RInt(dx * low), Rat(dx * rise, 2))])

C11_UnweightedConstantGivesArea ==
    /\ (/\ last.op = "convolve_with_function"
        /\ last.function = "one"
        /\ ~last.photon_weighted) =>
           last.value = C11_Area(filt.wavelength, filt.response)
    /\ ConvolveWithFunction(<<5000, 6000, 7000>>, <<0, 1, 0>>, "one", FALSE)
           = RInt(1000)

\* The area of a curve of four samples at wavelengths that are not all
\* positive.
C11_Witness ==
    /\ last.op = "convolve_with_function"
    /\ last.function = "one"
    /\ ~last.photon_weighted
    /\ Len(filt.wavelength) = 4
    /\ filt.wavelength[1] < 0
    /\ last.value = RInt(2)

---------------------------------------------------------------------------
(* Plans are built on grids without a unit.  A grid is valid when it is    *)
(* 1-D, has at least 2 points and increases strictly; it covers the filter *)
(* when it starts at or below the filter's first wavelength and ends at or *)
(* above its last.                                                         *)
ValidGrid(g) ==
    /\ Len(g.shape) = 1
    /\ Len(g.data) >= 2
    /\ StrictlyIncreasing(g.data)

CoversFilter(g) ==
    /\ g.data[1] <= filt.wavelength[1]
    /\ g.data[Len(g.data)] >= filt.wavelength[Len(filt.wavelength)]

(* C1: for every valid filter and every valid grid that covers it,         *)
(* construction with interpolate=False succeeds, with the quadrature grid  *)
(* equal to the restricted slice and no extra nodes, whenever at most one  *)
(* interior filter wavelength lies strictly between each pair of           *)
(* consecutive grid wavelengths; it fails for undersampling only when some *)
(* pair has two or more interior filter wavelengths strictly between.      *)
C1_InteriorBetween(g, i) ==
    {j \in 2..(Len(filt.wavelength) - 1) :
        g[i] < filt.wavelength[j] /\ filt.wavelength[j] < g[i + 1]}

C1_AtMostOneBetween(g) ==
    \A i \in 1..(Len(g) - 1) : Cardinality(C1_InteriorBetween(g, i)) <= 1

C1_NoInterpolationSucceedsIffSampled ==
    (/\ last.op = "new_plan"
     /\ ~last.interpolate
     /\ ValidGrid(last.grid)
     /\ CoversFilter(last.grid)) =>
        /\ C1_AtMostOneBetween(last.grid.data) =>
               /\ last.err = "none"
               /\ last.obj.interpolate_wavelength = <<>>
               /\ last.obj.quad_wavelength = last.obj.wavelength
        /\ last.msg = "undersample" => ~C1_AtMostOneBetween(last.grid.data)

(* C2: construction fails, for either value of interpolate and of          *)
(* photon_weighted, whenever the grid's first wavelength is greater than   *)
(* the filter's first or its last is less than the filter's last; a valid  *)
(* grid whose end points equal the filter's boundary wavelengths is not    *)
(* rejected for coverage.                                                  *)
C2_CoverageIsRequired ==
    (last.op = "new_plan" /\ Len(last.grid.shape) = 1) =>
        /\ ~CoversFilter(last.grid) => (last.err # "none" /\ last.obj = NoPlan)
        /\ (/\ ValidGrid(last.grid)
            /\ last.grid.data[1] = filt.wavelength[1]
            /\ last.grid.data[Len(last.grid.data)] =
                   filt.wavelength[Len(filt.wavelength)]) => last.msg # "cover"

\* A valid grid that starts inside the filter was refused although
\* interpolation was allowed.
C2_Witness ==
    /\ last.op = "new_plan"
    /\ ValidGrid(last.grid)
    /\ last.grid.data[1] > filt.wavelength[1]
    /\ last.grid.data[Len(last.grid.data)] >= filt.wavelength[Len(filt.wavelength)]
    /\ last.interpolate
    /\ last.err = "ValueError"
    /\ last.msg = "cover"

(* C3: for every valid filter and every strictly increasing grid of at     *)
(* least 2 points that covers it, construction with interpolate=True       *)
(* succeeds; every grid rejected for undersampling with interpolate=False  *)
(* is accepted with interpolate=True.                                      *)
C3_InterpolationAlwaysSucceeds ==
    (/\ last.op = "new_plan"
     /\ last.interpolate
     /\ ValidGrid(last.grid)
     /\ CoversFilter(last.grid)) =>
        /\ last.err = "none"
        /\ plan = last.obj
        /\ plan # NoPlan

\* A plan built with interpolation on a grid that is refused without it.
C3_Witness ==
    /\ last.op = "new_plan"
    /\ last.interpolate
    /\ last.err = "none"
    /\ last.obj.interpolate_wavelength # <<>>
    /\ FilterConvolutionInit(filt, last.grid, last.photon_weighted, FALSE,
                             last.units).msg = "undersample"

(* C4: get_ab_maggies with a tabulated spectrum uses photon weighting and  *)
(* permits interpolation: on any valid grid covering the filter it         *)
(* succeeds, also where convolve_with_array with interpolate=False fails   *)
(* for undersampling, and its result is the photon-weighted,               *)
(* interpolation-enabled array convolution divided by ab_zeropoint.        *)
C4_MaggiesInterpolate ==
    (/\ last.op = "get_ab_maggies"
     /\ ValidGrid(last.grid)
     /\ CoversFilter(last.grid)) =>
        /\ last.err = "none"
        /\ last.value =
               RDiv(ConvolveWithArray(filt, last.grid, last.values, TRUE, TRUE,
                                      DefaultFluxUnit, "trapz").value,
                    filt.ab_zeropoint)
        /\ IsFinite(last.value)

\* Maggies obtained on a grid that the default array convolution refuses.
C4_Witness ==
    /\ last.op = "get_ab_maggies"
    /\ last.err = "none"
    /\ IsFinite(last.value)
    /\ ConvolveWithArray(filt, last.grid, last.values, TRUE, FALSE,
                         DefaultFluxUnit, "trapz").msg = "undersample"

---------------------------------------------------------------------------
(* C12: for an array holding N spectra on the plan's M-point grid, one     *)
(* evaluation along the wavelength axis (N x M along the last axis, M x N  *)
(* along the first) gives for each spectrum the result of evaluating that  *)
(* spectrum alone, for plans with and without interpolation nodes, with    *)
(* and without photon weighting.                                           *)

\* Spectrum n of a 2-D array as an array of its own, read off the row-major
\* data: row n when the wavelength axis is the last, column n when it is
\* the first.
C12_Spectrum(values, axis, n) ==
    IF axis = 0
    THEN Array1([i \in 1..values.shape[1] |->
                    values.data[(i - 1) * values.shape[2] + n]], values.unit)
    ELSE Array1([i \in 1..values.shape[2] |->
                    values.data[(n - 1) * values.shape[2] + i]], values.unit)

C12_NumSpectra(values, axis) ==
    IF axis = 0 THEN values.shape[2] ELSE values.shape[1]

C12_BatchEqualsSingle ==
    (last.op = "evaluate" /\ Len(last.values.shape) = 2)
        => \A n \in 1..C12_NumSpectra(last.values, last.axis) :
              \E single \in {FilterConvolutionCall(
                                 plan, C12_Spectrum(last.values, last.axis, n),
                                 last.method)} :
                 /\ single.err = last.err
                 /\ single.has_units = last.has_units
                 /\ last.err = "none" => last.value[n] = single.value

\* Two spectra of three samples each, with different results, on a
\* photon-weighted plan with nodes.
C12_Witness ==
    /\ last.op = "evaluate" /\ Len(last.values.shape) = 2 /\ last.axis = 0 - 1
    /\ last.err = "none"
    /\ last.values.shape[2] = 3
    /\ plan.interpolate_wavelength # <<>>
    /\ plan.quad_weight # <<>>
    /\ last.value[1] # last.value[2]

\* Two spectra held as the columns of an array, evaluated along axis 0.
C12_WitnessFirstAxis ==
    /\ last.op = "evaluate" /\ Len(last.values.shape) = 2 /\ last.axis = 0
    /\ last.err = "none"
    /\ plan.interpolate_wavelength # <<>>
    /\ last.value[1] # last.value[2]

---------------------------------------------------------------------------
(* C13: evaluating the same plan again with the same values object, axis   *)
(* and method gives the same outcome as the evaluation before it, for      *)
(* values without a unit and for values with a convertible unit.           *)

C13_RepeatedEvaluationAgrees ==
    (last.op = "evaluate" /\ last.prev # <<>>)
        => <<last.err, last.value>> = last.prev

\* The same statement for the values whose conversion factor to the
\* plan's input units is 1 or that carry no unit.
C13_RepeatedEvaluationAgreesUnconverted ==
    (/\ last.op = "evaluate" /\ last.prev # <<>>
     /\ \/ last.values.unit = NoUnit
        \/ ValuesUnitTo(last.values.unit, plan.input_units) = 1)
        => <<last.err, last.value>> = last.prev

---------------------------------------------------------------------------
(* C14: for every filter that was constructed, get_ab_maggies of           *)
(* ab_reference_flux passed as a callable, and of ab_reference_flux        *)
(* tabulated on the filter's own wavelengths, both return exactly 1.       *)

C14_OfReference ==
    \/ last.op = "maggies_of_function" /\ last.function = "ab_reference_flux"
    \/ last.op = "maggies_of_reference_array"

C14_ReferenceMaggiesIsOne ==
    C14_OfReference => (last.err = "none" /\ last.value = RInt(1))

\* The same statement for the filters whose zero point is a finite number
\* other than zero.
C14_ReferenceMaggiesIsOneForFiniteZeropoint ==
    (/\ C14_OfReference
     /\ IsFinite(filt.ab_zeropoint)
     /\ filt.ab_zeropoint # RZero)
        => (last.err = "none" /\ last.value = RInt(1))

---------------------------------------------------------------------------
(* C15: for a constant flux, the result on any grid the constructor        *)
(* accepted (without interpolation, or with it, or denser than the         *)
(* filter's own samples) agrees within 0.1% with the result on the         *)
(* two-point grid that spans the filter, evaluated with interpolation.     *)

C15_Within(a, b) ==
    /\ IsFinite(a) /\ IsFinite(b)
    /\ \E d \in {RSub(a, b)} :
           ~RLt(<<Abs(b[1]), b[2]>>, RMul(RInt(1000), <<Abs(d[1]), d[2]>>))

C15_ConstantFlux ==
    /\ last.op = "evaluate" /\ last.err = "none"
    /\ last.method = "trapz"
    /\ Len(last.values.shape) = 1
    /\ last.values.unit = NoUnit
    /\ \A i \in DOMAIN last.values.data : last.values.data[i] = 1

C15_TwoPoint ==
    ConvolveWithArray(
        filt,
        Array1(<<filt.wavelength[1], filt.wavelength[Len(filt.wavelength)]>>, NoUnit),
        Array1(<<1, 1>>, NoUnit),
        plan.quad_weight # <<>>, TRUE, plan.input_units, "trapz")

C15_ConstantFluxAgrees ==
    C15_ConstantFlux
        => (C15_TwoPoint.err = "none" /\ C15_Within(last.value, C15_TwoPoint.value))

\* The same statement for the plans without photon weights whose
\* quadrature grid holds every sample of the filter.
C15_ConstantFluxAgreesOnSampledGrids ==
    (/\ C15_ConstantFlux
     /\ plan.quad_weight = <<>>
     /\ \A k \in DOMAIN filt.wavelength :
           \E j \in DOMAIN plan.quad_wavelength :
              plan.quad_wavelength[j] = filt.wavelength[k])
        => (C15_TwoPoint.err = "none" /\ last.value = C15_TwoPoint.value)

---------------------------------------------------------------------------
(* C16: the error raised when the grid undersamples the filter and         *)
(* interpolation is not allowed is of a kind (exception class) that none   *)
(* of the validation errors has: a grid that does not cover the filter,    *)
(* wavelengths that do not increase, a wrong length along the axis, an     *)
(* unknown integration method.                                             *)

C16_OwnGridPlan ==
    FilterConvolutionInit(filt, Array1(filt.wavelength, NoUnit), FALSE, TRUE,
                          DefaultFluxUnit).obj

C16_ValidationErrors ==
    {FilterConvolutionInit(
         filt,
         Array1(<<filt.wavelength[1] + 1, filt.wavelength[Len(filt.wavelength)] + 1>>,
                NoUnit),
         FALSE, TRUE, DefaultFluxUnit),
     FilterConvolutionInit(
         filt, Array1(<<filt.wavelength[1], filt.wavelength[1]>>, NoUnit),
         FALSE, TRUE, DefaultFluxUnit),
     FilterConvolutionCall(C16_OwnGridPlan, Array1(<<1>>, NoUnit), "trapz"),
     FilterConvolutionCall(
         C16_OwnGridPlan, Array1([i \in DOMAIN filt.wavelength |-> 1], NoUnit),
         "bogus")}

C16_Undersampled == last.op = "new_plan" /\ last.msg = "undersample"

C16_UndersampleKindIsDistinct ==
    C16_Undersampled => \A e \in C16_ValidationErrors : e.err # last.err

\* The errors compared are the four validation errors, and the messages
\* (not the kinds) tell them from the undersampling error.
C16_MessagesAreDistinct ==
    C16_Undersampled
        => /\ {e.msg : e \in C16_ValidationErrors}
                = {"cover", "increasing", "length", "method"}
           /\ \A e \in C16_ValidationErrors : e.err = "ValueError"
           /\ last.err = "ValueError"

---------------------------------------------------------------------------
(* C17: the cache is last-write-wins.  After a successful construction the *)
(* entry under the new object's name '<group_name>-<band_name>' is that    *)
(* object, whatever the name held before, and every other entry is as it   *)
(* was; a look-up changes nothing, and load_filter(name) with              *)
(* load_from_cache=True returns the entry the cache holds for the name.    *)

C17_LastWriteWins ==
    /\ (last.op = "new_filter" /\ last.err = "none")
          => /\ last.obj.name
                  = last.meta.items.group_name.chars \o <<"-">>
                        \o last.meta.items.band_name.chars
             /\ DOMAIN cache = DOMAIN last.before \cup {last.obj.name}
             /\ cache[last.obj.name] = last.obj
             /\ \A n \in DOMAIN last.before :
                   n # last.obj.name => cache[n] = last.before[n]
    /\ last.op = "load_filter"
          => /\ cache = last.before
             /\ (last.load_from_cache /\ last.name \in DOMAIN cache)
                   => (last.err = "none" /\ last.obj = cache[last.name]
                       /\ filt = cache[last.name])

\* A construction replaced a different object of the same name while the
\* cache held another name as well.
C17_Witness ==
    /\ last.op = "new_filter" /\ last.err = "none"
    /\ last.obj.name \in DOMAIN last.before
    /\ last.before[last.obj.name] # last.obj
    /\ \E n \in DOMAIN cache : n # last.obj.name

---------------------------------------------------------------------------
(* C18: a construction that fails in the wavelength, response or metadata  *)
(* check leaves the cache as it found it, so that load_filter still        *)
(* returns, for every name registered before, the object it held.          *)

C18_FailureKeepsCache ==
    (last.op = "new_filter" /\ last.err # "none")
        => /\ cache = last.before
           /\ \A n \in DOMAIN last.before :
                 LoadFilterByName(cache, n, TRUE)
                     = [err |-> "none", obj |-> last.before[n]]

\* A construction under a registered name failed.
C18_Witness ==
    /\ last.op = "new_filter" /\ last.err # "none"
    /\ last.meta = Dict([group_name |-> Str(<<"g">>), band_name |-> Str(<<"r">>)])
    /\ <<"g", "-", "r">> \in DOMAIN cache
    /\ cache[<<"g", "-", "r">>].response = <<0, 2, 0>>

---------------------------------------------------------------------------
(* C19: the constructor of FilterConvolution leaves its inputs as they     *)
(* were: after the call, whether it succeeded or failed, the caller's      *)
(* wavelength array holds the values it held before, and the filter the    *)
(* plan refers to is the filter that was passed.                           *)

C19_ConstructionLeavesInputs ==
    last.op = "new_plan"
        => /\ arr = last.grid
           /\ last.err = "none" => last.obj.response = filt

\* The same statement for the calls that fail, that add interpolation
\* nodes, or whose grid ends on the filter's end points.
C19_ConstructionLeavesInputsUnlessClamped ==
    (/\ last.op = "new_plan"
     /\ \/ last.err # "none"
        \/ last.obj.interpolate_wavelength # <<>>
        \/ /\ \E i \in DOMAIN last.grid.data :
                  last.grid.data[i] = filt.wavelength[1]
           /\ \E i \in DOMAIN last.grid.data :
                  last.grid.data[i] = filt.wavelength[Len(filt.wavelength)])
        => /\ arr = last.grid
           /\ last.err = "none" => last.obj.response = filt

---------------------------------------------------------------------------
(* C20: an evaluation, successful or not, changes nothing of the plan      *)
(* (response_slice, response_grid, the interpolation nodes and sort order, *)
(* quad_wavelength, quad_weight, input_units, output_units,                *)
(* num_wavelength) and nothing of the filter (wavelengths, response,       *)
(* effective_wavelength, ab_zeropoint), at every evaluation of a sequence. *)

\* The state of a plan that the statement lists.
C20_PlanState(p) ==
    <<p.response_slice, p.response_grid, p.interpolate_wavelength,
      p.interpolate_response, p.interpolate_sort_order, p.quad_wavelength,
      p.quad_weight, p.input_units, p.output_units, p.num_wavelength>>

C20_FilterState(f) ==
    <<f.wavelength, f.response, f.effective_wavelength, f.ab_zeropoint>>

C20_EvaluationLeavesPlanAndFilter ==
    [][last'.op = "evaluate"
          => /\ C20_PlanState(plan') = C20_PlanState(plan)
             /\ C20_FilterState(plan'.response) = C20_FilterState(plan.response)
             /\ C20_FilterState(filt') = C20_FilterState(filt)]_vars

\* The same for every evaluation of values that are not the grid object of
\* the plan (there the plan's input grid stays as it was, too), and for the
\* filter in every evaluation.
C20_EvaluationLeavesPlanUnlessShared ==
    [][last'.op = "evaluate"
          => /\ ~SharesGrid(vals) => plan' = plan
             /\ plan'.response = plan.response /\ filt' = filt]_vars

\* A second evaluation of a photon-weighted plan with interpolation nodes
\* succeeded.
C20_Witness ==
    /\ last.op = "evaluate" /\ last.err = "none"
    /\ steps = MaxSteps
    /\ last.prev # <<>> /\ last.prev[1] = "none"
    /\ plan.quad_weight # <<>>
    /\ plan.interpolate_wavelength # <<>>

---------------------------------------------------------------------------
(* C21: an evaluation leaves the caller's values as they were: the same    *)
(* numbers and the same unit after the call as before it, for values       *)
(* without a unit and for values in a unit that differs from the plan's    *)
(* input unit and converts to it.                                          *)

C21_EvaluationLeavesValues ==
    last.op = "evaluate" => vals = last.values

\* The same statement for the calls that fail before the conversion and
\* for the values without a unit or with conversion factor 1.
C21_EvaluationLeavesValuesUnconverted ==
    (/\ last.op = "evaluate"
     /\ \/ last.msg \in {"method", "length"}
        \/ last.values.unit = NoUnit
        \/ ValuesUnitTo(last.values.unit, plan.input_units) = 1)
        => vals = last.values

---------------------------------------------------------------------------
(* C22: get_ab_maggies does not depend on the unit of the spectrum.  A     *)
(* callable that returns the spectrum in uJ/(cm2 s A) gives the maggies of *)
(* the callable that returns the same spectrum in erg/(cm2 s A), and a     *)
(* spectrum tabulated on the filter's wavelengths in uJ/(cm2 s A) gives    *)
(* the maggies of the same spectrum tabulated in erg/(cm2 s A).            *)

C22_Tabulated(function) ==
    GetAbMaggies(filt,
                 Fractions(TabulateFunctionOfWavelength(function, filt.wavelength),
                           FunctionUnits(function)),
                 Array1(filt.wavelength, NoUnit))

C22_TabulatedMaggiesIndependentOfUnit ==
    (last.op = "maggies_of_function" /\ last.function = "flux_uJ")
        => \E a \in {C22_Tabulated("flux_uJ")}, b \in {C22_Tabulated("flux_erg")} :
              a.err = b.err /\ a.value = b.value

C22_MaggiesIndependentOfUnit ==
    (last.op = "maggies_of_function" /\ last.function = "flux_uJ")
        => /\ \E b \in {GetAbMaggiesOfFunction(filt, "flux_erg")} :
                 last.err = b.err /\ last.value = b.value
           /\ C22_TabulatedMaggiesIndependentOfUnit

---------------------------------------------------------------------------
(* C23: when interpolation is allowed and needed, the extra nodes are the  *)
(* undersampled filter wavelengths that are not the first of their run of  *)
(* collisions: of each maximal run of consecutive filter wavelengths with  *)
(* one insertion position in the restricted grid every wavelength except   *)
(* the first is a node, and no other wavelength is.                        *)

C23_WithNodes ==
    /\ last.op = "new_plan" /\ last.err = "none"
    /\ last.obj.interpolate_wavelength # <<>>

\* The insertion position in the restricted grid of the filter's j-th
\* wavelength (1-based), as np.searchsorted finds it.
C23_Position(j) == SearchSortedInt(last.obj.wavelength, filt.wavelength[j])

C23_Nodes == {last.obj.interpolate_wavelength[i] : i \in DOMAIN last.obj.interpolate_wavelength}

\* What the constructor does: of the wavelengths after the first, those
\* that share their position with a later one are the nodes.
C23_ExtraNodesAreAllButLast ==
    C23_WithNodes
        => C23_Nodes
             = {filt.wavelength[j] : j \in {k \in 2..Len(filt.wavelength) :
                   \E m \in (k + 1)..Len(filt.wavelength) :
                      C23_Position(m) = C23_Position(k)}}

\* C23 for every plan with nodes: the nodes are the wavelengths that share
\* their position with an earlier one.
C23_ExtraNodesAreAllButFirst ==
    C23_WithNodes
        => C23_Nodes
             = {filt.wavelength[j] : j \in {k \in 2..Len(filt.wavelength) :
                   \E m \in 2..(k - 1) :
                      C23_Position(m) = C23_Position(k)}}

\* The filter wavelengths (1-based indices) that share their position with
\* another one.
C23_Colliding ==
    {k \in 2..Len(filt.wavelength) :
        \E m \in 2..Len(filt.wavelength) :
            m # k /\ C23_Position(m) = C23_Position(k)}

\* Every run consists of interior wavelengths of the filter that lie
\* strictly between two grid points.
C23_OnlyInteriorRuns ==
    \A k \in C23_Colliding :
        /\ k < Len(filt.wavelength)
        /\ \A i \in DOMAIN last.obj.wavelength :
              last.obj.wavelength[i] # filt.wavelength[k]

\* C23 for the plans whose runs of collisions hold no end point of the
\* filter and no grid point: every wavelength of a run except the first is
\* an extra node, and no other wavelength is.
C23_InteriorNodesAreAllButFirst ==
    (C23_WithNodes /\ C23_OnlyInteriorRuns)
        => C23_Nodes
             = {filt.wavelength[j] : j \in {k \in 2..Len(filt.wavelength) :
                   \E m \in 2..(k - 1) :
                      C23_Position(m) = C23_Position(k)}}

\* A plan whose only run is interior.
C23_WitnessInterior ==
    C23_WithNodes /\ C23_OnlyInteriorRuns /\ C23_Colliding # {}

\* Two nodes were taken from one run of three.
C23_Witness ==
    /\ C23_WithNodes
    /\ Len(last.obj.interpolate_wavelength) >= 2
    /\ \E k \in 2..Len(filt.wavelength) :
          C23_Position(k) = C23_Position(k + 2)

---------------------------------------------------------------------------
(* C24: after every successful construction quad_wavelength is strictly    *)
(* increasing, as long as the restricted slice and the extra nodes         *)
(* together, its interior entries are the interior entries of the slice    *)
(* and the extra nodes, its first and last entries are the filter's first  *)
(* and last wavelengths, and with extra nodes interpolate_sort_order is a  *)
(* permutation that sorts the slice followed by the nodes.                 *)

C24_Built == last.op = "new_plan" /\ last.err = "none"

\* The restricted slice of the grid as the caller passed it.
C24_Slice ==
    Slice(last.grid.data, last.obj.response_slice.start, last.obj.response_slice.stop)

C24_Interior(s) == {s[i] : i \in 2..(Len(s) - 1)}

C24_QuadratureGrid ==
    C24_Built
        => \E q \in {last.obj.quad_wavelength}, x \in {last.obj.interpolate_wavelength},
              o \in {last.obj.interpolate_sort_order} :
              /\ StrictlyIncreasing(q)
              /\ Len(q) = Len(C24_Slice) + Len(x)
              /\ C24_Interior(q)
                   = C24_Interior(C24_Slice) \cup {x[i] : i \in DOMAIN x}
              /\ q[1] = filt.wavelength[1]
              /\ q[Len(q)] = filt.wavelength[Len(filt.wavelength)]
              /\ x # <<>>
                   => /\ Len(o) = Len(q)
                      /\ {o[i] : i \in DOMAIN o} = 0..(Len(q) - 1)
                      /\ StrictlyIncreasing(Take(C24_Slice \o x, o))
              /\ x = <<>> => o = <<>>

\* A plan with extra nodes on a trimmed grid that overruns the filter on
\* both sides.
C24_Witness ==
    /\ C24_Built
    /\ last.obj.interpolate_wavelength # <<>>
    /\ Len(C24_Slice) < Len(last.grid.data)
    /\ C24_Slice[1] < filt.wavelength[1]
    /\ C24_Slice[Len(C24_Slice)] > filt.wavelength[Len(filt.wavelength)]

---------------------------------------------------------------------------
(* C25: the restricted slice of a plan is the smallest contiguous range of *)
(* the input grid that covers the filter: it starts at the largest input   *)
(* wavelength that is <= the filter's first wavelength, ends at the        *)
(* smallest input wavelength that is >= the filter's last wavelength, has  *)
(* at least 2 points, and response_grid is 0 at its first and last point.  *)

C25_RestrictedSlice ==
    (last.op = "new_plan" /\ last.err = "none")
        => \E g \in {last.grid.data}, s \in {last.obj.response_slice},
              fw \in {filt.wavelength} :
              /\ 0 <= s.start /\ s.stop <= Len(g)
              /\ s.stop - s.start >= 2
              /\ g[s.start + 1] = Max({g[i] : i \in {j \in DOMAIN g : g[j] <= fw[1]}})
              /\ g[s.stop] = Min({g[i] : i \in {j \in DOMAIN g : g[j] >= fw[Len(fw)]}})
              /\ Len(last.obj.response_grid) = s.stop - s.start
              /\ last.obj.response_grid[1] = RZero
              /\ last.obj.response_grid[s.stop - s.start] = RZero

\* A grid trimmed at both ends.
C25_Witness ==
    /\ last.op = "new_plan" /\ last.err = "none"
    /\ last.obj.response_slice.start > 0
    /\ last.obj.response_slice.stop < Len(last.grid.data)

---------------------------------------------------------------------------
(* C26: when the grid does not sample the filter sufficiently and          *)
(* interpolation is allowed, the values are interpolated at the fewest     *)
(* filter wavelengths that make the sampling sufficient: at most one       *)
(* filter wavelength lies strictly between two consecutive quadrature      *)
(* wavelengths, and no smaller set of extra filter wavelengths does that.  *)

C26_FilterWavelengths == {filt.wavelength[j] : j \in DOMAIN filt.wavelength}

C26_AtMostOneBetween(Q) ==
    \A a \in Q, b \in Q :
        (a < b /\ ~\E c \in Q : a < c /\ c < b)
            => Cardinality({w \in C26_FilterWavelengths : a < w /\ w < b}) <= 1

C26_Quadrature == {last.obj.quad_wavelength[i] : i \in DOMAIN last.obj.quad_wavelength}

C26_ExtraNodes ==
    {last.obj.interpolate_wavelength[i] : i \in DOMAIN last.obj.interpolate_wavelength}

C26_Interpolated ==
    /\ last.op = "new_plan" /\ last.err = "none"
    /\ last.obj.interpolate_wavelength # <<>>

C26_QuadratureSamplesSufficiently ==
    C26_Interpolated => C26_AtMostOneBetween(C26_Quadrature)

C26_FewestNodes ==
    C26_Interpolated
        => /\ C26_AtMostOneBetween(C26_Quadrature)
           /\ \A X \in SUBSET C26_FilterWavelengths :
                 Cardinality(X) < Cardinality(C26_ExtraNodes)
                     => ~C26_AtMostOneBetween((C26_Quadrature \ C26_ExtraNodes) \cup X)

---------------------------------------------------------------------------
(* C27: an evaluation fails, and returns no result, exactly when the       *)
(* method is neither 'trapz' nor 'simps', or the size of the values along  *)
(* the axis is not the length of the grid the plan was built on, or the    *)
(* values have a unit while the plan has no input unit or the unit does    *)
(* not convert to it; values as long as the restricted slice only are      *)
(* rejected when the slice is shorter than the grid.                       *)

C27_SizeAlongAxis ==
    IF Len(last.values.shape) = 1 \/ last.axis = 0 THEN last.values.shape[1]
    ELSE last.values.shape[2]

\* Units of one physical dimension convert to each other.
C27_Dimensions == {{DefaultFluxUnit, "uJ/(cm2 s A)"}, {"Angstrom", "nm", "pm"}}

C27_MustFail ==
    \/ last.method \notin {"trapz", "simps"}
    \/ C27_SizeAlongAxis # Len(arr.data)
    \/ /\ last.values.unit # NoUnit
       /\ \/ plan.input_units = NoUnit
          \/ ~\E D \in C27_Dimensions : {last.values.unit, plan.input_units} \subseteq D

C27_WitnessShared ==
    /\ last.op = "evaluate" /\ last.err # "none"
    /\ SharesGrid(last.values)
    /\ ~C27_MustFail

C27_WitnessSimps ==
    /\ last.op = "evaluate" /\ last.err = "none"
    /\ last.method = "simps"
    /\ plan.interpolate_wavelength # <<>>
    /\ Len(plan.quad_wavelength) = 4


---------------------------------------------------------------------------
(* C28, C29: the calling conventions of tabulate_function_of_wavelength.   *)

C28_Outcomes(function, c) ==
    IF c = 1 THEN <<function.array_units>>
    ELSE IF c = 2 THEN <<function.array>>
    ELSE IF c = 3 THEN function.each_units
    ELSE function.each

\* The function raises in convention c: one of its calls there raises.
C28_RaisesIn(function, c) ==
    \E i \in 1..Len(C28_Outcomes(function, c)) : Raises(C28_Outcomes(function, c)[i])

\* The return values of convention c all carry the same unit, or none does.
C28_ConsistentIn(function, c) ==
    \A i, j \in 1..Len(C28_Outcomes(function, c)) :
        C28_Outcomes(function, c)[i] = C28_Outcomes(function, c)[j]

C28_OrderOf(function) ==
    /\ \A c \in 1..4 :
          (/\ ~C28_RaisesIn(function, c)
           /\ C28_ConsistentIn(function, c)
           /\ \A b \in 1..(c - 1) : C28_RaisesIn(function, b))
              => last.err = "none" /\ last.convention = c
    /\ (last.err = "ValueError" /\ last.msg = "invalid")
           <=> \A c \in 1..4 : C28_RaisesIn(function, c)

\* C28: the four conventions are tried in their order, the first in which
\* the function does not raise gives the result whatever exception the
\* function raised in the earlier ones, and 'Invalid function' is reported
\* exactly when the function raised in all four.
C28_FirstConventionThatDoesNotRaise ==
    last.op = "tabulate" => C28_OrderOf(last.function)

\* The same for the functions that raise no RuntimeError and return no
\* unit in the third convention before they raise there.
C28_FirstConventionUnlessRuntimeError ==
    (/\ last.op = "tabulate"
     /\ \A c \in 1..4 : \A i \in 1..Len(C28_Outcomes(last.function, c)) :
            C28_Outcomes(last.function, c)[i] # "RuntimeError"
     /\ C28_RaisesIn(last.function, 3) => last.function.each_units[1] \in {NoUnit, "TypeError"})
        => C28_OrderOf(last.function)

\* The conventions 1 to 3 raised, the fourth returned.
C28_Witness ==
    /\ last.op = "tabulate"
    /\ \A c \in 1..3 : C28_RaisesIn(last.function, c)
    /\ last.err = "none" /\ last.convention = 4

\* The elementwise convention that the call ended in, with a function that
\* did not raise in it.
C29_Elementwise ==
    /\ last.op = "tabulate"
    /\ last.convention \in {3, 4}
    /\ ~C28_RaisesIn(last.function, last.convention)

C29_Rule ==
    /\ ~C28_ConsistentIn(last.function, last.convention)
          => last.err = "RuntimeError" /\ last.msg = "inconsistent"
    /\ last.err = "none" => C28_ConsistentIn(last.function, last.convention)

\* C29: in an elementwise convention, return values that are not all with
\* the same unit or all without a unit raise the inconsistent-units error,
\* and values are returned only when they are consistent.
C29_InconsistentUnitsRaise == C29_Elementwise => C29_Rule

\* The same when the third convention left no unit behind for the fourth.
C29_InconsistentUnitsRaiseWhenFresh ==
    (/\ C29_Elementwise
     /\ last.convention = 4 => ~(last.function.each_units[1] \in {"U", "V"}))
        => C29_Rule

\* Inconsistent units were rejected.
C29_Witness ==
    /\ C29_Elementwise
    /\ ~C28_ConsistentIn(last.function, last.convention)
    /\ last.err = "RuntimeError" /\ last.msg = "inconsistent"


---------------------------------------------------------------------------
(* C30: plans that share the caller's grid object.                         *)

\* The filters a sequence can hold.
C30_Filters ==
    {FilterResponseInit(Array1(in[1], NoUnit), in[2], GoodMeta).obj :
        in \in PlanFilterInputs}

C30_Result(r) == <<r.err, r.msg, r.value>>

\* Filter B gives on the grid object as the call for filt left it what it
\* gives on a copy of the grid as it was before that call.
C30_SameAsOnFreshCopy(B) ==
    \A values \in ValueInputs(last.grid) :
        C30_Result(GetAbMaggies(B, values, arr))
            = C30_Result(GetAbMaggies(B, values, last.grid))

C30_AfterPlan == last.op \in {"new_plan", "get_ab_maggies"}

\* C30: what a filter B computes on a grid object does not depend on the
\* plans built on that object before: after a plan or get_ab_maggies for
\* the filter filt on the grid, get_ab_maggies for any filter B on the same
\* object equals get_ab_maggies for B on a fresh copy of the grid.
C30_IndependentOfEarlierPlans ==
    C30_AfterPlan => \A B \in C30_Filters : C30_SameAsOnFreshCopy(B)

\* The same for the filter of the earlier plan itself.
C30_IndependentOfOwnEarlierPlans ==
    C30_AfterPlan => C30_SameAsOnFreshCopy(filt)

\* The same when the earlier call left the grid as it was.
C30_IndependentOfEarlierPlansUnlessClamped ==
    (C30_AfterPlan /\ arr = last.grid)
        => \A B \in C30_Filters : C30_SameAsOnFreshCopy(B)

====
